---------------------------- MODULE Spec2Model ----------------------------
(***************************************************************************)
(* Irrigation controller firmware of IoT-Pertanian.                        *)
(*                                                                         *)
(* Two firmware images are modelled:                                       *)
(*   - the task-state firmware   src/IoT_Pertanian.ino          (ts)       *)
(*   - the round-robin firmware  src/arduino/IoT_Pertanian.ino  (rr)       *)
(*                                                                         *)
(* Each image is one record of its global variables.  A function of the    *)
(* source is an operator from the record before the call to the record     *)
(* after it; loop() is the composition the source writes.                  *)
(*                                                                         *)
(* Time.  Every unsigned long time stamp X of the source is kept as its    *)
(* age millis() - X in the field age[X]; X = millis() sets the age to 0    *)
(* and a delay(d) adds d to every age.  An age stops growing at the cap    *)
(* of its time stamp, the first value at which every comparison the        *)
(* source makes with it has its final truth value.  All delays of the      *)
(* source are multiples of the 50 ms that end loop(), so ages stay on a    *)
(* 50 ms grid.  Runs of loop() iterations that change nothing but the      *)
(* clock are taken in one step (TsSleep, RrSleep) that stops at the next   *)
(* instant at which a time comparison of the source changes its value.     *)
(* The model covers up times below 2^32 ms (millis() does not wrap).       *)
(***************************************************************************)
EXTENDS Integers, Sequences, FiniteSets, TLC

VARIABLES firmware, ts, rr, env

vars == <<firmware, ts, rr, env>>

Min(a, b) == IF a <= b THEN a ELSE b

(***************************************************************************)
(* Configuration of the task-state firmware.                               *)
(***************************************************************************)
SOIL_THRESHOLD == 200
PARTIAL_SOIL_THRESHOLD == 400
PUMP_TIME_THRESHOLD == 180000
HEAVY_RAIN_THRESHOLD == 800
LIGHT_RAIN_THRESHOLD == 990
LCD_MODE_CHANGE_INTERVAL == 5000
LCD_UPDATE_INTERVAL == 1000
WIFI_RECONNECT_ATTEMPTS == 3
SERVER_SEND_INTERVAL == 1000
WATCHDOG_TIMEOUT == 8000
ERROR_DISPLAY_TIMEOUT == 5000
HTTP_TIMEOUT == 10000
DB_RETRY_INTERVAL == 60000
SENSOR_READ_INTERVAL == 1000
MAX_DHT_RETRIES == 3
DHT_RETRY_DELAY == 2000
LOOP_DELAY == 50
WIFI_ATTEMPT_TIME == 10000
WIFI_POLL_DELAY == 500
WATERING_MESSAGE_DELAY == 1000
ADC_MAX == 1023

\* enum ErrorCode, in the order of the enumeration
ERROR_NONE == 0
ERROR_DHT == 1
ERROR_SOIL == 2
ERROR_RAIN == 3
ERROR_AIR == 4
ERROR_LDR == 5
ERROR_PUMP == 6
ERROR_WIFI == 7
ERROR_SERVER == 8
ERROR_TIME == 9
ERROR_DB == 10

ErrorCode == ERROR_NONE..ERROR_DB

\* enum TaskState
TaskState == {"TASK_IDLE", "TASK_RUNNING", "TASK_COMPLETED", "TASK_FAILED"}

\* enum SystemState of the task-state firmware
SystemState == {"STATE_INIT", "STATE_READ_SENSORS", "STATE_EVALUATE_WATERING",
                "STATE_WATERING", "STATE_DISPLAY_DATA", "STATE_SEND_DATA",
                "STATE_ERROR"}

(***************************************************************************)
(* What the environment can answer.  A raw channel read is an analogRead() *)
(* value; ADC_MAX + 1 stands for a read outside 0..1023, the answer of a   *)
(* soil probe that is not wired.                                           *)
(***************************************************************************)
LdrReads == {550}
RainReads == {700, 900, 1000}
AirReads == {300}
SoilReads == {150, 250}
TempReads == {24}
HumReads == {65}
\* number of failed DHT attempts of one acquisition before one succeeds:
\* the probe answers at once, or not at all
DhtFails == {0, MAX_DHT_RETRIES}
\* WiFi.status() when checkWiFi() looks: connected, reconnects, stays down
WifiAnswers == {"up", "reconnect", "down"}
HttpStatus == {200, 201, 500, 0}

\* when the radio associates again: WiFi.begin() has been called `begins'
\* times and the wait of the last call has polled WiFi.status() `polls' times
NoAssoc == [begins |-> 1, polls |-> 0]

NoInput == [dht |-> 0, temp |-> 24, hum |-> 65, ldr |-> 550, rain |-> 1000,
            air |-> 300, soil |-> 250, currentSoilMoisture |-> 250,
            wifi |-> "up", assoc |-> NoAssoc, ntp |-> TRUE, http |-> 200]

(***************************************************************************)
(* Ages of the time stamps.                                                *)
(***************************************************************************)
TsStamps == {"errorStartTime", "lastLCDUpdateTime", "lastLCDModeChangeTime",
             "lastServerSendTime", "lastDBRetryTime", "lastSensorReadTime",
             "dbTaskStartTime", "pumpStartTime"}

\* the instants (ages) at which a comparison with the time stamp changes
TsMarks(x) ==
  CASE x = "errorStartTime" -> {ERROR_DISPLAY_TIMEOUT + LOOP_DELAY}
    [] x = "lastLCDUpdateTime" -> {LCD_UPDATE_INTERVAL}
    [] x = "lastLCDModeChangeTime" -> {LCD_MODE_CHANGE_INTERVAL}
    [] x = "lastServerSendTime" -> {SERVER_SEND_INTERVAL}
    [] x = "lastDBRetryTime" -> {DB_RETRY_INTERVAL}
    [] x = "lastSensorReadTime" -> {SENSOR_READ_INTERVAL}
    [] x = "dbTaskStartTime" -> {HTTP_TIMEOUT}
    [] x = "pumpStartTime" -> {PUMP_TIME_THRESHOLD, PUMP_TIME_THRESHOLD + LOOP_DELAY}
    [] x = "wdtRefreshTime" -> {WATCHDOG_TIMEOUT}

SetMax(S) == CHOOSE m \in S : \A n \in S : n <= m
SetMin(S) == CHOOSE m \in S : \A n \in S : m <= n

TsCap(x) == SetMax(TsMarks(x))

\* delay(d), or any call that takes d ms
Delay(s, d) == [s EXCEPT !.age = [x \in DOMAIN s.age |-> Min(TsCap(x), s.age[x] + d)]]

\* X = millis()
Stamp(s, x) == [s EXCEPT !.age[x] = 0]

\* millis() - X
Since(s, x) == s.age[x]

\* the body of f is executed: a function that returns on its first test
\* leaves no entry (LoopCalls lists the calls themselves)
Ran(s, f) == [s EXCEPT !.ran = Append(@, f)]

\* f is among the calls s.ran lists
Called(s, f) == \E i \in DOMAIN s.ran : s.ran[i] = f

(***************************************************************************)
(* The watchdog.  The time since the last WDT.refresh() is the age of the  *)
(* stamp wdtRefreshTime, which only the records made by Watched carry: no  *)
(* statement of the firmware reads it.  When it reaches WATCHDOG_TIMEOUT   *)
(* the watchdog has reset the board, and the age stays there.              *)
(***************************************************************************)
IsWatched(s) == "wdtRefreshTime" \in DOMAIN s.age

Watched(s) ==
  [s EXCEPT !.age = [x \in DOMAIN s.age \cup {"wdtRefreshTime"} |->
                       IF x \in DOMAIN s.age THEN s.age[x] ELSE 0]]

\* the watchdog has run out since s was put under watch
WdtExpired(s) == Since(s, "wdtRefreshTime") >= WATCHDOG_TIMEOUT

\* WDT.refresh()
WdtRefresh(s) == IF IsWatched(s) /\ ~WdtExpired(s) THEN Stamp(s, "wdtRefreshTime") ELSE s

\* a wait of d ms in a loop that calls WDT.refresh() before each delay(p)
PolledWait(s, d, p) ==
  CASE d = 0 -> s
    [] IsWatched(s) /\ ~WdtExpired(s) -> [Delay(s, d) EXCEPT !.age["wdtRefreshTime"] = p]
    [] OTHER -> Delay(s, d)


(***************************************************************************)
(* Task-state firmware: the globals at power-up (their initialisers).      *)
(***************************************************************************)
\* convertToCO2PPM(analogValue): a float the model does not compute; it is
\* kept as the application of the curve to its argument
convertToCO2PPM(analogValue) == <<"ppm", analogValue>>

TsSensorData0 ==
  [temperature |-> 0, humidity |-> 0, ldrValue |-> 0, rainValue |-> 0,
   airQuality |-> 0, airQualityPPM |-> 0, soilMoisture |-> 0,
   isValid |-> FALSE, timestamp |-> "none"]

TsBoot ==
  [pc |-> "setup",
   currentState |-> "STATE_INIT",
   currentError |-> ERROR_NONE,
   lastDisplayedError |-> ERROR_NONE,
   displayMode |-> 0,
   sensorData |-> TsSensorData0,
   dataTransmissionErrors |-> 0,
   dbTaskState |-> "TASK_IDLE",
   sensorTaskState |-> "TASK_IDLE",
   displayTaskState |-> "TASK_IDLE",
   wateringTaskState |-> "TASK_IDLE",
   timeInitialized |-> FALSE,
   ntpDue |-> FALSE,
   wateringDisplayInitialized |-> FALSE,
   pumpActive |-> FALSE,
   pump |-> "LOW",
   wifi |-> "up",
   assoc |-> NoAssoc,
   age |-> [x \in TsStamps |-> 0],
   ran |-> <<>>]

(***************************************************************************)
(* checkWiFi(): [s, ok].  The answer of the radio is s.wifi, the answer    *)
(* drawn for this loop() iteration; once a reconnect has succeeded the     *)
(* radio is connected for the rest of the iteration.                       *)
(***************************************************************************)
\* one attempt: WiFi.begin() and k polls of WiFi.status(), each followed by
\* WDT.refresh() and delay(500)
WifiAttempt(s, k) ==
  PolledWait(Ran(s, "WiFi.begin"), k * WIFI_POLL_DELAY, WIFI_POLL_DELAY)

\* n attempts that run out of their 10000 ms
RECURSIVE WifiAttempts(_, _)
WifiAttempts(s, n) ==
  IF n = 0 THEN s
  ELSE WifiAttempts(WifiAttempt(s, WIFI_ATTEMPT_TIME \div WIFI_POLL_DELAY), n - 1)

checkWiFi(s) ==
  CASE s.wifi = "up" -> [s |-> s, ok |-> TRUE]
    [] s.wifi = "reconnect" ->
         [s |-> [WifiAttempt(WifiAttempts(s, s.assoc.begins - 1), s.assoc.polls)
                   EXCEPT !.currentError = ERROR_NONE, !.wifi = "up"],
          ok |-> TRUE]
    [] s.wifi = "down" ->
         [s |-> WifiAttempts(s, WIFI_RECONNECT_ATTEMPTS), ok |-> FALSE]

\* updateNTPTime() after its call of checkWiFi(), whose result is c
NtpUpdate(c, in) ==
  IF ~c.ok THEN [s |-> c.s, ok |-> FALSE]
  ELSE IF in.ntp
       THEN [s |-> [c.s EXCEPT !.timeInitialized = TRUE, !.ntpDue = FALSE], ok |-> TRUE]
       ELSE [s |-> c.s, ok |-> FALSE]

\* updateNTPTime(): [s, ok]
updateNTPTime(s, in) == NtpUpdate(checkWiFi(s), in)

\* if (millis() - lastNTPUpdateTime >= NTP_UPDATE_INTERVAL) updateNTPTime();
NtpRefresh(s, in) == IF s.ntpDue THEN updateNTPTime(s, in).s ELSE s

\* getFormattedTime() after the first updateNTPTime(), whose result is u
TimeFormat(u, in) == IF ~u.ok THEN u.s ELSE NtpRefresh(u.s, in)

\* getFormattedTime(): the state after it (the text it formats is not kept)
getFormattedTime(s, in) ==
  IF ~s.timeInitialized THEN TimeFormat(updateNTPTime(s, in), in)
  ELSE NtpRefresh(s, in)


(***************************************************************************)
(* startSensorReading().  in.dht is the number of DHT attempts that fail   *)
(* before one succeeds (MAX_DHT_RETRIES: none succeeds); the other fields  *)
(* of in are the values the channels return.                               *)
(***************************************************************************)
InRange(v) == ~(v < 0 \/ v > ADC_MAX)

DhtSuccess(in) == in.dht < MAX_DHT_RETRIES

\* the time stamp and the NTP refresh that open the acquisition
SensorTimestamp(s, in) ==
  IF s.timeInitialized
  THEN [s EXCEPT !.sensorData.timestamp = "epoch"]
  ELSE NtpRefresh([s EXCEPT !.sensorData.timestamp = "uptime"], in)

\* the values kept when every DHT attempt has failed
DhtFailed(s) ==
  [s EXCEPT !.sensorData.temperature = IF @ = 0 THEN 25 ELSE @,
            !.sensorData.humidity = IF @ = 0 THEN 50 ELSE @,
            !.currentError = ERROR_DHT]

\* an attempt that succeeds
DhtRead(s, in) ==
  [s EXCEPT !.sensorData.temperature = in.temp,
            !.sensorData.humidity = in.hum,
            !.currentError = ERROR_NONE]

\* the attempt made with dhtRetries = n: the delay that precedes every attempt
\* but the first, and the two reads of the probe
DhtAttempt(s, n) == Ran(IF n > 0 THEN Delay(s, DHT_RETRY_DELAY) ELSE s, "dht.read")

\* while (!dhtSuccess && dhtRetries < MAX_DHT_RETRIES), entered with
\* dhtRetries = n, and the test on dhtSuccess that follows the loop
RECURSIVE DhtRetryLoop(_, _, _)
DhtRetryLoop(s, in, n) ==
  IF n >= MAX_DHT_RETRIES THEN DhtFailed(s)
  ELSE IF n >= in.dht THEN DhtRead(DhtAttempt(s, n), in)
  ELSE DhtRetryLoop(DhtAttempt(s, n), in, n + 1)

SensorDht(s, in) == DhtRetryLoop(s, in, 0)

\* a faulty variant of SensorLdr, which smooths the light level over the last
\* two reads; AcquisitionIdempotent tells it from the source
SensorLdrSmoothed(s, in) ==
  IF InRange(in.ldr)
  THEN [s EXCEPT !.sensorData.ldrValue = (@ + in.ldr) \div 2]
  ELSE [s EXCEPT !.sensorData.ldrValue = IF @ = 0 THEN 500 ELSE @,
                 !.currentError = ERROR_LDR]

SensorLdr(s, in) ==
  IF InRange(in.ldr)
  THEN [s EXCEPT !.sensorData.ldrValue = in.ldr]
  ELSE [s EXCEPT !.sensorData.ldrValue = IF @ = 0 THEN 500 ELSE @,
                 !.currentError = ERROR_LDR]

SensorRain(s, in) ==
  IF InRange(in.rain)
  THEN [s EXCEPT !.sensorData.rainValue = in.rain]
  ELSE [s EXCEPT !.sensorData.rainValue = IF @ = ADC_MAX THEN 1000 ELSE @,
                 !.currentError = ERROR_RAIN]

SensorPpm(s) ==
  [s EXCEPT !.sensorData.airQualityPPM = convertToCO2PPM(s.sensorData.airQuality)]

SensorAir(s, in) ==
  IF InRange(in.air)
  THEN SensorPpm([s EXCEPT !.sensorData.airQuality = in.air])
  ELSE SensorPpm([s EXCEPT !.sensorData.airQuality = IF @ = 0 THEN 300 ELSE @,
                           !.currentError = ERROR_AIR])

SensorSoil(s, in) ==
  IF InRange(in.soil)
  THEN [s EXCEPT !.sensorData.soilMoisture = in.soil]
  ELSE [s EXCEPT !.sensorData.soilMoisture = IF @ = ADC_MAX THEN 500 ELSE @,
                 !.currentError = ERROR_SOIL]

\* the local "success" of the acquisition
SensorAllGood(in) ==
  DhtSuccess(in) /\ InRange(in.ldr) /\ InRange(in.rain) /\ InRange(in.air)
    /\ InRange(in.soil)

\* the end of the acquisition
SensorDone(s, in) ==
  IF SensorAllGood(in)
  THEN [s EXCEPT !.sensorData.isValid = TRUE, !.sensorTaskState = "TASK_COMPLETED",
                 !.currentError = ERROR_NONE]
  ELSE [s EXCEPT !.sensorData.isValid = TRUE, !.sensorTaskState = "TASK_COMPLETED"]

startSensorReading(s, in) ==
  IF s.sensorTaskState = "TASK_IDLE"
       /\ Since(s, "lastSensorReadTime") >= SENSOR_READ_INTERVAL
  THEN SensorDone(
         SensorSoil(
           SensorAir(
             SensorRain(
               SensorLdr(
                 SensorDht(
                   SensorTimestamp(
                     WdtRefresh(Ran(Stamp(s, "lastSensorReadTime"),
                                    "startSensorReading")), in),
                   in), in), in), in), in), in)
  ELSE s

(***************************************************************************)
(* startWatering() and continueWatering().  in.currentSoilMoisture is the  *)
(* value the soil channel returns to the analogRead() of                   *)
(* continueWatering(), which comes after that of startSensorReading()      *)
(* (in.soil) when one loop() iteration makes both.                         *)
(***************************************************************************)
\* a faulty variant of WateringRain, which takes only a downpour for heavy
\* rain; SkipPath tells it from the source
WateringRainDownpour(s) ==
  IF s.sensorData.rainValue < HEAVY_RAIN_THRESHOLD - 200
  THEN [Ran(s, "pumpLow") EXCEPT !.pump = "LOW", !.wateringTaskState = "TASK_COMPLETED"]
  ELSE s

\* a faulty variant of WateringRain, which takes the threshold itself for
\* heavy rain; RainBandOutcome tells it from the source
WateringRainInclusive(s) ==
  IF s.sensorData.rainValue <= HEAVY_RAIN_THRESHOLD
  THEN [Ran(s, "pumpLow") EXCEPT !.pump = "LOW", !.wateringTaskState = "TASK_COMPLETED"]
  ELSE s

\* the rain test of startWatering()
WateringRain(s) ==
  IF s.sensorData.rainValue < HEAVY_RAIN_THRESHOLD
  THEN [Ran(s, "pumpLow") EXCEPT !.pump = "LOW", !.wateringTaskState = "TASK_COMPLETED"]
  ELSE s

startWatering(s) ==
  IF s.wateringTaskState = "TASK_IDLE" /\ s.sensorData.soilMoisture < SOIL_THRESHOLD
  THEN WateringRain(Ran([s EXCEPT !.wateringTaskState = "TASK_RUNNING"], "startWatering"))
  ELSE s

\* a faulty variant of PumpOff, which ends the task without writing the pin;
\* PumpLowUnlessRunning tells it from the source
PumpOffNoWrite(s) ==
  [Delay([s EXCEPT !.pumpActive = FALSE], WATERING_MESSAGE_DELAY)
     EXCEPT !.wateringTaskState = "TASK_COMPLETED",
            !.wateringDisplayInitialized = FALSE]

\* digitalWrite(PUMP, LOW); pumpActive = false; delay(1000);
\* wateringTaskState = TASK_COMPLETED; wateringDisplayInitialized = false
PumpOff(s) ==
  [Delay([Ran(s, "pumpLow") EXCEPT !.pump = "LOW", !.pumpActive = FALSE],
         WATERING_MESSAGE_DELAY)
     EXCEPT !.wateringTaskState = "TASK_COMPLETED",
            !.wateringDisplayInitialized = FALSE]

\* int currentSoilMoisture = analogRead(SOILPIN) of continueWatering()
SoilPoll(s) == Ran(s, "analogRead(SOILPIN)")

\* a faulty variant of WateringCheck, which stores the soil moisture it
\* reads in sensorData; SensorDataReadOnly tells it from the source
WateringCheckStoring(s, in) ==
  IF s.pumpActive
       /\ (in.currentSoilMoisture >= SOIL_THRESHOLD
             \/ Since(s, "pumpStartTime") >= PUMP_TIME_THRESHOLD)
  THEN PumpOff([SoilPoll(s) EXCEPT !.sensorData.soilMoisture = in.currentSoilMoisture])
  ELSE IF s.pumpActive
  THEN [SoilPoll(s) EXCEPT !.sensorData.soilMoisture = in.currentSoilMoisture] ELSE s

\* the part of continueWatering() that runs while the pump is active
WateringCheck(s, in) ==
  IF s.pumpActive
       /\ (in.currentSoilMoisture >= SOIL_THRESHOLD
             \/ Since(s, "pumpStartTime") >= PUMP_TIME_THRESHOLD)
  THEN PumpOff(SoilPoll(s))
  ELSE IF s.pumpActive THEN SoilPoll(s) ELSE s

\* pumpActive = true; digitalWrite(PUMP, HIGH); pumpStartTime = millis();
\* wateringDisplayInitialized = true
PumpOn(s) ==
  [Stamp(Ran(s, "pumpHigh"), "pumpStartTime")
     EXCEPT !.pumpActive = TRUE, !.pump = "HIGH", !.wateringDisplayInitialized = TRUE]

\* the first-time block of continueWatering()
WateringBegin(s, in) ==
  IF s.sensorData.rainValue < LIGHT_RAIN_THRESHOLD
       /\ s.sensorData.soilMoisture < PARTIAL_SOIL_THRESHOLD
  THEN WateringCheck(PumpOn(s), in)
  ELSE IF s.sensorData.rainValue >= LIGHT_RAIN_THRESHOLD
  THEN WateringCheck(PumpOn(s), in)
  ELSE PumpOff(s)

continueWatering(s, in) ==
  IF s.wateringTaskState # "TASK_RUNNING" THEN s
  ELSE IF ~s.wateringDisplayInitialized
  THEN WateringBegin(WdtRefresh(Ran(s, "continueWatering")), in)
  ELSE WateringCheck(WdtRefresh(Ran(s, "continueWatering")), in)


(***************************************************************************)
(* startDataUpload(), continueDataUpload(), startDatabaseConnection().     *)
(* in.http is the status responseStatusCode() returns, 0 when no response  *)
(* arrives; waiting for a response that does not arrive takes HTTP_TIMEOUT.*)
(***************************************************************************)
HttpWait(status) == IF status = 0 THEN HTTP_TIMEOUT ELSE 0

\* the test the firmware makes on the status code
UploadAccepted(status) == status = 200

\* the end of startDataUpload(), once the response is in
UploadResult(s, in) ==
  IF UploadAccepted(in.http)
  THEN [Stamp(s, "lastServerSendTime")
          EXCEPT !.dataTransmissionErrors = 0, !.dbTaskState = "TASK_COMPLETED"]
  ELSE [s EXCEPT !.dbTaskState = "TASK_FAILED", !.currentError = ERROR_SERVER]

\* a faulty variant of UploadPost, which counts an upload that the missing
\* connection has prevented as a failed transmission; NoUploadWithoutWifi
\* tells it from the source
UploadPostCounting(c, in) ==
  IF ~c.ok
  THEN [c.s EXCEPT !.currentError = ERROR_WIFI, !.dbTaskState = "TASK_FAILED",
                   !.dataTransmissionErrors = @ + 1]
  ELSE UploadResult(
         Delay(Ran(getFormattedTime(
                     Stamp([c.s EXCEPT !.dbTaskState = "TASK_RUNNING"], "dbTaskStartTime"),
                     in),
                   "http.post"),
               HttpWait(in.http)),
         in)

\* startDataUpload() after its call of checkWiFi(), whose result is c
UploadPost(c, in) ==
  IF ~c.ok
  THEN [c.s EXCEPT !.currentError = ERROR_WIFI, !.dbTaskState = "TASK_FAILED"]
  ELSE UploadResult(
         Delay(Ran(getFormattedTime(
                     Stamp([c.s EXCEPT !.dbTaskState = "TASK_RUNNING"], "dbTaskStartTime"),
                     in),
                   "http.post"),
               HttpWait(in.http)),
         in)

startDataUpload(s, in) ==
  IF s.dbTaskState = "TASK_IDLE"
       /\ Since(s, "lastServerSendTime") >= SERVER_SEND_INTERVAL
  THEN UploadPost(checkWiFi(Ran(s, "startDataUpload")), in)
  ELSE s

continueDataUpload(s) ==
  IF s.dbTaskState # "TASK_RUNNING" THEN s
  ELSE IF Since(s, "dbTaskStartTime") >= HTTP_TIMEOUT
       THEN [WdtRefresh(Ran(s, "continueDataUpload"))
               EXCEPT !.dbTaskState = "TASK_FAILED", !.currentError = ERROR_SERVER]
       ELSE WdtRefresh(Ran(s, "continueDataUpload"))

\* startDatabaseConnection() after its call of checkWiFi(), whose result is c
DbConnect(c) ==
  IF ~c.ok
  THEN [c.s EXCEPT !.currentError = ERROR_WIFI, !.dbTaskState = "TASK_FAILED"]
  ELSE Stamp([c.s EXCEPT !.dbTaskState = "TASK_RUNNING"], "dbTaskStartTime")

startDatabaseConnection(s) ==
  IF s.dbTaskState = "TASK_IDLE"
  THEN DbConnect(checkWiFi(Ran(s, "startDatabaseConnection")))
  ELSE s

(***************************************************************************)
(* updateDisplay(), displayErrorOnce(), handleError().                     *)
(***************************************************************************)
NUM_VIEWS == 4
ERROR_ONCE_DELAY == 2000

\* the change of view of updateDisplay()
DisplayRotate(s) ==
  IF Since(s, "lastLCDModeChangeTime") >= LCD_MODE_CHANGE_INTERVAL
  THEN [Stamp(s, "lastLCDModeChangeTime") EXCEPT !.displayMode = (@ + 1) % NUM_VIEWS]
  ELSE s

updateDisplay(s, in) ==
  IF s.displayTaskState = "TASK_IDLE"
       /\ Since(s, "lastLCDUpdateTime") >= LCD_UPDATE_INTERVAL
  THEN [Stamp(DisplayRotate(
                getFormattedTime(
                  [Ran(s, "updateDisplay") EXCEPT !.displayTaskState = "TASK_RUNNING"],
                  in)),
              "lastLCDUpdateTime")
          EXCEPT !.displayTaskState = "TASK_COMPLETED"]
  ELSE s

displayErrorOnce(s, error) ==
  IF error # s.lastDisplayedError
  THEN [Delay(Ran(s, "displayErrorOnce"), ERROR_ONCE_DELAY)
          EXCEPT !.lastDisplayedError = error]
  ELSE s

\* case ERROR_WIFI of the recovery switch; c is the result of checkWiFi()
WifiRemedy(c) == IF c.ok THEN [c.s EXCEPT !.currentError = ERROR_NONE] ELSE c.s

\* case ERROR_DB of the recovery switch, after startDatabaseConnection()
DbRemedy(s) ==
  IF s.dbTaskState = "TASK_COMPLETED" THEN [s EXCEPT !.currentError = ERROR_NONE] ELSE s

\* the recovery switch of handleError(), entered after the display timeout
ErrorRemedy(s) ==
  CASE s.currentError = ERROR_WIFI -> WifiRemedy(checkWiFi(s))
    [] s.currentError = ERROR_DB ->
         IF Since(s, "lastDBRetryTime") >= DB_RETRY_INTERVAL
         THEN DbRemedy(Stamp(startDatabaseConnection(s), "lastDBRetryTime"))
         ELSE s
    [] OTHER -> s

\* the first block of handleError(): a warning not yet shown is shown
ErrorShow(s) ==
  IF s.currentError # s.lastDisplayedError
  THEN [Stamp(Ran(s, "warning"), "errorStartTime")
          EXCEPT !.lastDisplayedError = s.currentError]
  ELSE s

\* a faulty variant of ErrorTimeout, which does not wait for the display
\* timeout; UplinkFailureIsolated tells it from the source
ErrorTimeoutAtOnce(s) ==
  [Ran(ErrorRemedy(s), "forceRead") EXCEPT !.currentState = "STATE_READ_SENSORS"]

\* the second block of handleError()
ErrorTimeout(s) ==
  IF Since(s, "errorStartTime") > ERROR_DISPLAY_TIMEOUT
  THEN [Ran(ErrorRemedy(s), "forceRead") EXCEPT !.currentState = "STATE_READ_SENSORS"]
  ELSE s

handleError(s) == ErrorTimeout(ErrorShow(WdtRefresh(Ran(s, "handleError"))))


(***************************************************************************)
(* setup() and loop() of the task-state firmware.                          *)
(***************************************************************************)
SETUP_WIFI_WAIT == 30000
SETUP_WIFI_POLL == 1000
SETUP_SCREEN_DELAY == 2000

\* The age of a time stamp is kept only while the firmware can read it:
\*   pumpStartTime          is read only while pumpActive (and written when
\*                          pumpActive is set),
\*   dbTaskStartTime        only while dbTaskState is TASK_RUNNING,
\*   lastLCDModeChangeTime  only while displayTaskState is TASK_IDLE,
\*   lastDBRetryTime        only under ERROR_DB or in STATE_SEND_DATA.
\* Otherwise the age is kept at its cap.  pumpStartTime and dbTaskStartTime
\* are written when their condition becomes true; the conditions of the
\* other two, once false, stay false (no statement of the source sets
\* displayTaskState back to TASK_IDLE, none enters STATE_SEND_DATA and none
\* sets ERROR_DB).  loop() reads lastSensorReadTime, lastServerSendTime and
\* lastLCDUpdateTime in every iteration, and handleError() errorStartTime.
TsReadable(s, x) ==
  CASE x = "pumpStartTime" -> s.pumpActive
    [] x = "dbTaskStartTime" -> s.dbTaskState = "TASK_RUNNING"
    [] x = "lastLCDModeChangeTime" -> s.displayTaskState = "TASK_IDLE"
    [] x = "lastDBRetryTime" ->
         s.currentError = ERROR_DB \/ s.currentState = "STATE_SEND_DATA"
    [] OTHER -> TRUE

Settle(s) ==
  [s EXCEPT !.age = [x \in DOMAIN s.age |->
                       IF TsReadable(s, x) THEN s.age[x] ELSE TsCap(x)]]

\* the result u of updateNTPTime() in setup()
SetupTime(u) == IF u.ok THEN u.s ELSE [u.s EXCEPT !.currentError = ERROR_TIME]

\* the association with the access point and the time sync of setup()
SetupWifi(s, in) ==
  IF in.wifi = "up"
  THEN Delay(SetupTime(updateNTPTime(
                         Delay(PolledWait(s, in.assoc.polls * SETUP_WIFI_POLL,
                                          SETUP_WIFI_POLL),
                               SETUP_SCREEN_DELAY),
                         in)),
             SETUP_SCREEN_DELAY)
  ELSE Delay([PolledWait(s, SETUP_WIFI_WAIT, SETUP_WIFI_POLL)
                EXCEPT !.currentError = ERROR_WIFI],
             SETUP_SCREEN_DELAY)

setup(s, in) ==
  Settle([Delay([Delay(startSensorReading(
                         SetupWifi([s EXCEPT !.pump = "LOW",
                                             !.lastDisplayedError = ERROR_NONE,
                                             !.wifi = in.wifi], in),
                         in),
                       SETUP_SCREEN_DELAY)
                   EXCEPT !.currentState = "STATE_READ_SENSORS"],
                SETUP_SCREEN_DELAY)
            EXCEPT !.pc = "loop", !.wifi = "up", !.ran = <<>>])

\* case STATE_READ_SENSORS
ReadSensorsState(s) ==
  IF s.sensorTaskState = "TASK_COMPLETED"
  THEN [s EXCEPT !.sensorTaskState = "TASK_IDLE",
                 !.currentState = IF s.sensorData.soilMoisture < SOIL_THRESHOLD
                                  THEN "STATE_EVALUATE_WATERING"
                                  ELSE "STATE_DISPLAY_DATA"]
  ELSE IF s.sensorTaskState = "TASK_FAILED"
  THEN [displayErrorOnce([s EXCEPT !.sensorTaskState = "TASK_IDLE"], s.currentError)
          EXCEPT !.currentState = "STATE_DISPLAY_DATA"]
  ELSE s

\* the tests on wateringTaskState that close the two watering cases
WateringEnd(s) ==
  IF s.wateringTaskState = "TASK_COMPLETED"
  THEN [s EXCEPT !.wateringTaskState = "TASK_IDLE", !.currentState = "STATE_DISPLAY_DATA"]
  ELSE IF s.wateringTaskState = "TASK_FAILED"
  THEN [s EXCEPT !.wateringTaskState = "TASK_IDLE", !.currentError = ERROR_PUMP]
  ELSE s

\* case STATE_EVALUATE_WATERING, after its call of startWatering()
EvaluateWateringState(s, in) ==
  IF s.wateringTaskState = "TASK_RUNNING" THEN continueWatering(s, in) ELSE WateringEnd(s)

\* the database reconnection of case STATE_SEND_DATA
SendRetry(s) ==
  IF s.dataTransmissionErrors >= 3 /\ Since(s, "lastDBRetryTime") >= DB_RETRY_INTERVAL
  THEN Stamp(startDatabaseConnection(s), "lastDBRetryTime")
  ELSE s

\* case STATE_SEND_DATA
SendDataState(s) ==
  IF s.dbTaskState = "TASK_RUNNING" THEN continueDataUpload(s)
  ELSE IF s.dbTaskState = "TASK_COMPLETED"
  THEN [s EXCEPT !.dbTaskState = "TASK_IDLE", !.currentState = "STATE_DISPLAY_DATA"]
  ELSE IF s.dbTaskState = "TASK_FAILED"
  THEN [SendRetry([s EXCEPT !.dbTaskState = "TASK_IDLE", !.dataTransmissionErrors = @ + 1])
          EXCEPT !.currentState = "STATE_DISPLAY_DATA"]
  ELSE s

\* the switch (currentState) of loop()
StateMachine(s, in) ==
  CASE s.currentState = "STATE_INIT" -> [s EXCEPT !.currentState = "STATE_READ_SENSORS"]
    [] s.currentState = "STATE_READ_SENSORS" -> ReadSensorsState(s)
    [] s.currentState = "STATE_EVALUATE_WATERING" ->
         EvaluateWateringState(startWatering(s), in)
    [] s.currentState = "STATE_WATERING" -> WateringEnd(continueWatering(s, in))
    [] s.currentState = "STATE_DISPLAY_DATA" ->
         IF Since(s, "lastSensorReadTime") >= SENSOR_READ_INTERVAL
         THEN [s EXCEPT !.currentState = "STATE_READ_SENSORS"]
         ELSE s
    [] s.currentState = "STATE_SEND_DATA" -> SendDataState(s)
    [] s.currentState = "STATE_ERROR" -> handleError(s)

\* WDT.refresh() at the top of loop(); in.wifi is the answer of the radio
\* for this iteration
LoopStart(s, in) ==
  WdtRefresh(Ran([s EXCEPT !.ran = <<>>, !.wifi = in.wifi, !.assoc = in.assoc],
                 "WDT.refresh"))

\* the four unconditional steps of loop(), in the order of the source
LoopError(s) == IF s.currentError # ERROR_NONE THEN handleError(s) ELSE s

LoopSensors(s, in) ==
  IF Since(s, "lastSensorReadTime") >= SENSOR_READ_INTERVAL
  THEN startSensorReading(s, in) ELSE s

LoopUpload(s, in) ==
  IF Since(s, "lastServerSendTime") >= SERVER_SEND_INTERVAL
  THEN startDataUpload(s, in) ELSE s

LoopDisplay(s, in) ==
  IF Since(s, "lastLCDUpdateTime") >= LCD_UPDATE_INTERVAL
  THEN updateDisplay(s, in) ELSE s

\* delay(50) and the return of loop()
LoopEnd(s) == Settle([Delay(s, LOOP_DELAY) EXCEPT !.wifi = "up", !.assoc = NoAssoc])

loop(s, in) ==
  LoopEnd(
    StateMachine(
      LoopDisplay(
        LoopUpload(
          LoopSensors(
            LoopError(LoopStart(s, in)),
            in), in), in), in))

(***************************************************************************)
(* The answers the environment gives during one loop() iteration: only    *)
(* the channels and services the iteration can consult are drawn.          *)
(***************************************************************************)
TsMayRead(s) == s.sensorTaskState = "TASK_IDLE"
TsMayPoll(s) == s.currentState \in {"STATE_EVALUATE_WATERING", "STATE_WATERING"}
TsMayUpload(s) == s.dbTaskState = "TASK_IDLE"

\* the instants at which a radio that has lost the access point associates
\* again during checkWiFi(): after all but one of the polls of the first
\* attempt, or after one poll of the second attempt
Assocs == {[begins |-> 1, polls |-> (WIFI_ATTEMPT_TIME \div WIFI_POLL_DELAY) - 1],
           [begins |-> 2, polls |-> 1]}

\* how the access point treats the board
Radios ==
  {[wifi |-> w, assoc |-> NoAssoc] : w \in WifiAnswers \ {"reconnect"}}
    \cup {[wifi |-> "reconnect", assoc |-> a] : a \in Assocs}

\* The installation: whether the DHT probe answers, whether the soil probe is
\* wired, how the access point treats the board and whether the NTP server
\* answers.  It is fixed when the board is powered; the rain and soil levels
\* and the HTTP server answer anew at every call.
Installations(probes) ==
  {[dht |-> d, probe |-> p, wifi |-> r.wifi, assoc |-> r.assoc, ntp |-> n] :
     d \in DhtFails, p \in probes, r \in Radios, n \in BOOLEAN}

Environments == Installations({"wired", "open"})

\* a loose contact of the analog connector: the rain and soil channels answer
\* in range (heavy rain, wet soil) at one read and out of range at another
LooseRainReads == {700, ADC_MAX + 1}
LooseSoilReads == {250, ADC_MAX + 1}

\* probes that stand at the thresholds of the watering decision: the levels
\* on both sides of each threshold
EdgeRainReads == {HEAVY_RAIN_THRESHOLD - 1, HEAVY_RAIN_THRESHOLD,
                  LIGHT_RAIN_THRESHOLD - 1, LIGHT_RAIN_THRESHOLD}
EdgeSoilReads == {SOIL_THRESHOLD - 1, SOIL_THRESHOLD}

\* the installation with the loose contact stands in the cold: its DHT probe,
\* when it answers, reads 0 degrees at one read and 24 at another
LooseTempReads == {0, 24}

\* dht.readTemperature() of a probe that answers
TempAnswers(e) == IF e.probe = "loose" THEN LooseTempReads ELSE TempReads

\* the soil channel: a probe that is wired answers in range, one that is not
\* wired answers out of range
SoilAnswers(e) ==
  CASE e.probe = "open" -> {ADC_MAX + 1}
    [] e.probe = "loose" -> LooseSoilReads
    [] e.probe = "edge" -> EdgeSoilReads
    [] OTHER -> SoilReads

RainAnswers(e) ==
  CASE e.probe = "loose" -> LooseRainReads
    [] e.probe = "edge" -> EdgeRainReads
    [] OTHER -> RainReads

\* the polls of the wait of setup() before the radio is associated
SetupAssocs == [begins : {1}, polls : 0..(SETUP_WIFI_WAIT \div SETUP_WIFI_POLL)]

TsInputs(s, e) ==
  [dht : {e.dht},
   temp : IF TsMayRead(s) THEN TempAnswers(e) ELSE {NoInput.temp},
   hum : IF TsMayRead(s) THEN HumReads ELSE {NoInput.hum},
   ldr : IF TsMayRead(s) THEN LdrReads ELSE {NoInput.ldr},
   rain : IF TsMayRead(s) THEN RainAnswers(e) ELSE {NoInput.rain},
   air : IF TsMayRead(s) THEN AirReads ELSE {NoInput.air},
   soil : IF TsMayRead(s) THEN SoilAnswers(e) ELSE {NoInput.soil},
   currentSoilMoisture :
     IF TsMayPoll(s) THEN SoilAnswers(e) ELSE {NoInput.currentSoilMoisture},
   wifi : {e.wifi},
   assoc : {e.assoc},
   ntp : {e.ntp},
   http : IF TsMayUpload(s) /\ e.wifi # "down" THEN HttpStatus ELSE {NoInput.http}]

\* in setup() the radio either associates within the wait or does not
SetupInputs(e) ==
  [dht : {e.dht}, temp : TempAnswers(e), hum : HumReads, ldr : LdrReads,
   rain : RainAnswers(e),
   air : AirReads, soil : SoilAnswers(e),
   currentSoilMoisture : {NoInput.currentSoilMoisture},
   wifi : {IF e.wifi = "down" THEN "down" ELSE "up"},
   assoc : IF e.wifi = "down" THEN {NoAssoc} ELSE SetupAssocs,
   ntp : {e.ntp},
   http : {NoInput.http}]

\* the time to the next instant at which a time comparison changes its value
TsNextMark(s) ==
  LET D == UNION {{m - s.age[x] : m \in {n \in TsMarks(x) : n > s.age[x]}} : x \in TsStamps}
  IN IF D = {} THEN LOOP_DELAY ELSE SetMin(D)

\* the iteration that has led to r has read the soil channel in
\* continueWatering(): the switch was entered in a watering state (and not
\* in the STATE_READ_SENSORS that handleError() sets) with the pump running
TsPolls(r) == Called(r, "analogRead(SOILPIN)")

\* the lengths of a run of iterations that change nothing but the clock: up
\* to the next time mark when the iterations read no channel, and one
\* iteration (any number of them, one after the other) when each reads the
\* soil channel and the answer can change from one to the next
TsNaps(s, r) == IF TsPolls(r) THEN {LOOP_DELAY, TsNextMark(s)} ELSE {TsNextMark(s)}

\* a loop() iteration that changes nothing but the clock
TsQuiet(s, r) == [r EXCEPT !.ran = s.ran] = Delay(s, LOOP_DELAY)

(***************************************************************************)
(* Round-robin firmware (src/arduino/IoT_Pertanian.ino): configuration.    *)
(***************************************************************************)
SOIL_LOW == 200
RAIN_LOW == 990
RAIN_MEDIUM == 920
STATE_DURATION == 1000
NUM_DISPLAY_MODES == 7
MAX_PUMP_DURATION == 30000
NUM_READINGS == 5
RR_WIFI_ATTEMPT_TIME == 10000
RR_HTTP_TIMEOUT == 10000
RR_STATES == 4

\* the values the soil channel returns to the round-robin firmware; SOIL_LOW
\* itself is neither below nor above the threshold
RrSoilReads == {150, SOIL_LOW, 250}
RrRainReads == {900, 950, 1000}

\* responseStatusCode(): accepted, server error, no response in time (-3)
RrHttpStatus == {200, 500, -3}

RrStamps == {"lastStateChangeTime", "pumpStartTime"}

\* the instants at which a comparison with the time stamp changes, and for
\* pumpStartTime one full rotation past the limit
RrMarks(x) ==
  CASE x = "lastStateChangeTime" -> {STATE_DURATION}
    [] x = "pumpStartTime" -> {MAX_PUMP_DURATION + LOOP_DELAY,
                               MAX_PUMP_DURATION + RR_STATES * STATE_DURATION}

RrCap(x) == SetMax(RrMarks(x))

RrDelay(s, d) == [s EXCEPT !.age = [x \in DOMAIN s.age |-> Min(RrCap(x), s.age[x] + d)]]

\* the globals at power-up.  soilAbove records whether a stored soil value
\* has exceeded SOIL_LOW since the pump was last switched on.
RrBoot ==
  [pc |-> "setup",
   currentState |-> "STATE_READ_SENSORS",
   currentError |-> ERROR_NONE,
   lastDisplayedError |-> ERROR_NONE,
   displayMode |-> 0,
   sensorData |-> [temperature |-> 0, humidity |-> 0, ldrValue |-> 0, rainValue |-> 0,
                   airQuality |-> 0, soilMoisture |-> 0, timestamp |-> "none"],
   timeInitialized |-> FALSE,
   isPumpActive |-> FALSE,
   pump |-> "LOW",
   sensorsReadThisCycle |-> FALSE,
   dataSentThisCycle |-> FALSE,
   systemInitialized |-> FALSE,
   soilAbove |-> FALSE,
   wifi |-> "up",
   assoc |-> NoAssoc,
   age |-> [x \in RrStamps |-> 0],
   ran |-> <<>>]

\* pumpStartTime is read only while isPumpActive
RrSettle(s) ==
  [s EXCEPT !.age["pumpStartTime"] = IF s.isPumpActive THEN @ ELSE RrCap("pumpStartTime")]

(***************************************************************************)
(* Round-robin firmware: checkWiFi(), updateNTPTime(), getFormattedTime(), *)
(* displayErrorOnce().                                                     *)
(***************************************************************************)
\* one WiFi.begin() and one wait per call: a radio that needs a second
\* WiFi.begin() is not associated when the wait is over
RrCheckWiFi(s) ==
  CASE s.wifi = "up" -> [s |-> s, ok |-> TRUE]
    [] s.wifi = "reconnect" /\ s.assoc.begins = 1 ->
         [s |-> [RrDelay(Ran(s, "WiFi.begin"), s.assoc.polls * WIFI_POLL_DELAY)
                   EXCEPT !.currentError = ERROR_NONE, !.wifi = "up"],
          ok |-> TRUE]
    [] OTHER ->
         [s |-> RrDelay(Ran(s, "WiFi.begin"), RR_WIFI_ATTEMPT_TIME), ok |-> FALSE]

\* updateNTPTime() after its call of checkWiFi(), whose result is c
RrNtpUpdate(c, in) ==
  IF c.ok /\ in.ntp
  THEN [s |-> [c.s EXCEPT !.timeInitialized = TRUE], ok |-> TRUE]
  ELSE [s |-> c.s, ok |-> FALSE]

RrUpdateNTPTime(s, in) == RrNtpUpdate(RrCheckWiFi(s), in)

RrGetFormattedTime(s, in) ==
  IF ~s.timeInitialized THEN RrUpdateNTPTime(s, in).s ELSE s

RrDisplayErrorOnce(s, error) ==
  IF error # s.lastDisplayedError
  THEN [RrDelay(Ran(s, "displayErrorOnce"), ERROR_ONCE_DELAY)
          EXCEPT !.lastDisplayedError = error]
  ELSE s

(***************************************************************************)
(* controlWatering().                                                      *)
(***************************************************************************)
\* digitalWrite(PUMP, HIGH); isPumpActive = true; pumpStartTime = millis()
RrPumpOn(s) ==
  [Stamp(Ran(s, "pumpHigh"), "pumpStartTime")
     EXCEPT !.pump = "HIGH", !.isPumpActive = TRUE, !.soilAbove = FALSE]

\* digitalWrite(PUMP, LOW); isPumpActive = false
RrPumpOff(s) == [Ran(s, "pumpLow") EXCEPT !.pump = "LOW", !.isPumpActive = FALSE]

\* a faulty variant of controlWatering, which takes soil at SOIL_LOW for dry;
\* NoWateringOfWetSoil tells it from the source
controlWateringAtLimit(s) ==
  IF s.isPumpActive
  THEN IF s.sensorData.soilMoisture > SOIL_LOW
            \/ Since(s, "pumpStartTime") > MAX_PUMP_DURATION
       THEN RrPumpOff(Ran(s, "controlWatering"))
       ELSE Ran(s, "controlWatering")
  ELSE IF s.sensorData.soilMoisture <= SOIL_LOW
  THEN IF s.sensorData.rainValue < RAIN_MEDIUM
       THEN Ran(s, "controlWatering")
       ELSE RrPumpOn(Ran(s, "controlWatering"))
  ELSE Ran(s, "controlWatering")

controlWatering(s) ==
  IF s.isPumpActive
  THEN IF s.sensorData.soilMoisture > SOIL_LOW
            \/ Since(s, "pumpStartTime") > MAX_PUMP_DURATION
       THEN RrPumpOff(Ran(s, "controlWatering"))
       ELSE Ran(s, "controlWatering")
  ELSE IF s.sensorData.soilMoisture < SOIL_LOW
  THEN IF s.sensorData.rainValue < RAIN_MEDIUM
       THEN Ran(s, "controlWatering")
       ELSE IF s.sensorData.rainValue < RAIN_LOW
       THEN RrPumpOn(Ran(s, "controlWatering"))
       ELSE RrPumpOn(Ran(s, "controlWatering"))
  ELSE Ran(s, "controlWatering")

(***************************************************************************)
(* performInitialSensorReading(), validateSensorData(), setup().  The five *)
(* readings of the initial acquisition return the same values, so each     *)
(* average is that value; the DHT probe answers all five times or never.   *)
(***************************************************************************)
RrDhtAnswers(in) == in.dht = 0

\* the averages and the time stamp of the initial acquisition
InitialAverages(s, in) ==
  [s EXCEPT !.sensorData.temperature = IF RrDhtAnswers(in) THEN in.temp ELSE 0,
            !.sensorData.humidity = IF RrDhtAnswers(in) THEN in.hum ELSE 0,
            !.currentError = IF RrDhtAnswers(in) THEN ERROR_NONE ELSE ERROR_DHT,
            !.sensorData.ldrValue = (NUM_READINGS * in.ldr) \div NUM_READINGS,
            !.sensorData.rainValue = (NUM_READINGS * in.rain) \div NUM_READINGS,
            !.sensorData.airQuality = (NUM_READINGS * in.air) \div NUM_READINGS,
            !.sensorData.soilMoisture = (NUM_READINGS * in.soil) \div NUM_READINGS,
            !.sensorData.timestamp = IF s.timeInitialized THEN "epoch" ELSE "uptime"]

performInitialSensorReading(s, in) ==
  RrDelay([RrGetFormattedTime(
             RrDelay(InitialAverages(
                       RrDelay(s, SETUP_SCREEN_DELAY + NUM_READINGS * STATE_DURATION), in),
                     3000 + 3000),
             in)
             EXCEPT !.systemInitialized = TRUE],
          SETUP_SCREEN_DELAY)

\* validateSensorData(): [s, ok]
validateSensorData(s) ==
  IF s.sensorData.temperature = 0 \/ s.sensorData.temperature < -40
       \/ s.sensorData.temperature > 80
  THEN [s |-> [s EXCEPT !.currentError = ERROR_DHT], ok |-> FALSE]
  ELSE IF s.sensorData.humidity = 0 \/ s.sensorData.humidity < 0
            \/ s.sensorData.humidity > 100
  THEN [s |-> [s EXCEPT !.currentError = ERROR_DHT], ok |-> FALSE]
  ELSE IF s.sensorData.ldrValue = 0 \/ s.sensorData.ldrValue > ADC_MAX
  THEN [s |-> [s EXCEPT !.currentError = ERROR_LDR], ok |-> FALSE]
  ELSE IF s.sensorData.rainValue = 0 \/ s.sensorData.rainValue > ADC_MAX
  THEN [s |-> [s EXCEPT !.currentError = ERROR_RAIN], ok |-> FALSE]
  ELSE IF s.sensorData.airQuality = 0 \/ s.sensorData.airQuality > ADC_MAX
  THEN [s |-> [s EXCEPT !.currentError = ERROR_AIR], ok |-> FALSE]
  ELSE IF s.sensorData.soilMoisture = 0 \/ s.sensorData.soilMoisture > ADC_MAX
  THEN [s |-> [s EXCEPT !.currentError = ERROR_SOIL], ok |-> FALSE]
  ELSE [s |-> [s EXCEPT !.currentError = ERROR_NONE], ok |-> TRUE]

\* the result u of updateNTPTime() in setup()
RrSetupTime(u) == IF u.ok THEN u.s ELSE [u.s EXCEPT !.currentError = ERROR_TIME]

RrSetupWifi(s, in) ==
  IF in.wifi = "up"
  THEN RrDelay(RrSetupTime(
                 RrUpdateNTPTime(RrDelay(s, in.assoc.polls * SETUP_WIFI_POLL
                                              + SETUP_SCREEN_DELAY), in)),
               SETUP_SCREEN_DELAY)
  ELSE RrDelay([RrDelay(s, SETUP_WIFI_WAIT) EXCEPT !.currentError = ERROR_WIFI],
               SETUP_SCREEN_DELAY)

setupRr(s, in) ==
  RrSettle([performInitialSensorReading(
              RrDelay(Stamp([RrSetupWifi([s EXCEPT !.pump = "LOW",
                                                   !.lastDisplayedError = ERROR_NONE,
                                                   !.wifi = in.wifi], in)
                               EXCEPT !.currentState = "STATE_READ_SENSORS"],
                            "lastStateChangeTime"),
                      SETUP_SCREEN_DELAY),
              in)
              EXCEPT !.pc = "loop", !.wifi = "up", !.ran = <<>>])

(***************************************************************************)
(* loop() of the round-robin firmware.                                     *)
(***************************************************************************)
\* a faulty variant of the rotation, which goes from the uplink straight back
\* to the acquisition; RotationInOrder tells it from the source
RrNextStateNoWatering(st) ==
  CASE st = "STATE_READ_SENSORS" -> "STATE_DISPLAY_DATA"
    [] st = "STATE_DISPLAY_DATA" -> "STATE_SEND_DATA"
    [] st = "STATE_SEND_DATA" -> "STATE_READ_SENSORS"
    [] st = "STATE_WATERING" -> "STATE_READ_SENSORS"

RrNextState(st) ==
  CASE st = "STATE_READ_SENSORS" -> "STATE_DISPLAY_DATA"
    [] st = "STATE_DISPLAY_DATA" -> "STATE_SEND_DATA"
    [] st = "STATE_SEND_DATA" -> "STATE_WATERING"
    [] st = "STATE_WATERING" -> "STATE_READ_SENSORS"

\* a faulty variant of the rotation, which leaves the once-per-cycle flags as
\* they are; OncePerVisit tells it from the source
RrRotateKeepingFlags(s) ==
  IF Since(s, "lastStateChangeTime") >= STATE_DURATION
  THEN Stamp([s EXCEPT
                !.currentState = RrNextState(@),
                !.displayMode =
                   IF s.currentState = "STATE_DISPLAY_DATA"
                   THEN (@ + 1) % NUM_DISPLAY_MODES ELSE @],
             "lastStateChangeTime")
  ELSE s

\* the state rotation that opens loop()
RrRotate(s) ==
  IF Since(s, "lastStateChangeTime") >= STATE_DURATION
  THEN Stamp([s EXCEPT
                !.currentState = RrNextState(@),
                !.sensorsReadThisCycle =
                   IF s.currentState = "STATE_READ_SENSORS" THEN FALSE ELSE @,
                !.displayMode =
                   IF s.currentState = "STATE_DISPLAY_DATA"
                   THEN (@ + 1) % NUM_DISPLAY_MODES ELSE @,
                !.dataSentThisCycle =
                   IF s.currentState = "STATE_SEND_DATA" THEN FALSE ELSE @],
             "lastStateChangeTime")
  ELSE s

\* the DHT read of case STATE_READ_SENSORS
RrReadDht(s, in) ==
  IF RrDhtAnswers(in)
  THEN [s EXCEPT !.sensorData.temperature = in.temp, !.sensorData.humidity = in.hum,
                 !.currentError = ERROR_NONE]
  ELSE [s EXCEPT !.currentError = ERROR_DHT]

\* the time stamp and the four analogRead() of case STATE_READ_SENSORS
RrReadAnalog(s, in) ==
  [s EXCEPT !.sensorData.timestamp = IF s.timeInitialized THEN "epoch" ELSE "uptime",
            !.sensorData.ldrValue = in.ldr,
            !.sensorData.rainValue = in.rain,
            !.sensorData.airQuality = in.air,
            !.sensorData.soilMoisture = in.soil,
            !.soilAbove = @ \/ (s.isPumpActive /\ in.soil > SOIL_LOW)]

\* case STATE_READ_SENSORS
RrReadSensors(s, in) ==
  IF s.sensorsReadThisCycle THEN s
  ELSE [RrGetFormattedTime(RrReadAnalog(RrReadDht(Ran(s, "readSensors"), in), in), in)
          EXCEPT !.sensorsReadThisCycle = TRUE]

RrHttpWait(status) == IF status = -3 THEN RR_HTTP_TIMEOUT ELSE 0

\* the request of case STATE_SEND_DATA, from wifi.connect() on
RrPost(s, in) ==
  IF ~in.connect
  THEN [s EXCEPT !.currentError = ERROR_SERVER, !.dataSentThisCycle = TRUE]
  ELSE [RrDelay(Ran(s, "http.post"), RrHttpWait(in.http))
          EXCEPT !.currentError = IF in.http = 200 THEN ERROR_NONE ELSE ERROR_SERVER,
                 !.dataSentThisCycle = TRUE]

\* a faulty variant of the send, which ignores the result of the validation;
\* SendOnlyValidated tells it from the source
RrSendUnvalidated(v, in) == RrPost(RrGetFormattedTime(v.s, in), in)

\* case STATE_SEND_DATA after validateSensorData(), whose result is v
RrSendValidated(v, in) ==
  IF ~v.ok THEN [v.s EXCEPT !.dataSentThisCycle = TRUE]
  ELSE RrPost(RrGetFormattedTime(v.s, in), in)

\* case STATE_SEND_DATA
RrSendData(s, in) ==
  IF ~s.dataSentThisCycle /\ s.wifi = "up"
  THEN RrSendValidated(validateSensorData(Ran(s, "sendData")), in)
  ELSE IF ~s.dataSentThisCycle
  THEN [Ran(s, "sendData") EXCEPT !.currentError = ERROR_WIFI, !.dataSentThisCycle = TRUE]
  ELSE s

\* the second LCD line of case STATE_WATERING
RrWateringText(s) ==
  IF s.isPumpActive
  THEN IF s.sensorData.rainValue > RAIN_LOW /\ s.sensorData.rainValue <= RAIN_MEDIUM
       THEN "PUMP ON (Partial)"
       ELSE "PUMP ON"
  ELSE "PUMP OFF"

\* the watering status view that case STATE_WATERING writes to the LCD
RrWateringView(s) == Ran(s, RrWateringText(s))

\* the switch (currentState) of loop()
RrStateSwitch(s, in) ==
  CASE s.currentState = "STATE_READ_SENSORS" -> RrReadSensors(s, in)
    [] s.currentState = "STATE_DISPLAY_DATA" -> s
    [] s.currentState = "STATE_SEND_DATA" -> RrSendData(s, in)
    [] s.currentState = "STATE_WATERING" -> RrWateringView(controlWatering(s))

\* if (currentError != ERROR_NONE) displayErrorOnce(currentError);
RrShowError(s) ==
  IF s.currentError # ERROR_NONE THEN RrDisplayErrorOnce(s, s.currentError) ELSE s

\* delay(50) and the return of loop()
RrLoopEnd(s) ==
  RrSettle([RrDelay(s, LOOP_DELAY) EXCEPT !.wifi = "up", !.assoc = NoAssoc])

loopRr(s, in) ==
  IF ~s.systemInitialized THEN Ran([s EXCEPT !.ran = <<>>], "WDT.refresh")
  ELSE RrLoopEnd(
         RrShowError(
           RrStateSwitch(
             RrRotate(Ran([s EXCEPT !.ran = <<>>, !.wifi = in.wifi,
                                    !.assoc = in.assoc],
                          "WDT.refresh")),
             in)))

\* the answers the environment gives during one loop() iteration
RrWillRead(s) ==
  \/ s.currentState = "STATE_WATERING"
  \/ (s.currentState = "STATE_READ_SENSORS" /\ ~s.sensorsReadThisCycle)

RrWillSend(s) ==
  \/ s.currentState = "STATE_DISPLAY_DATA"
  \/ (s.currentState = "STATE_SEND_DATA" /\ ~s.dataSentThisCycle)

RrSoilAnswers(e) == IF e.probe = "open" THEN {ADC_MAX + 1} ELSE RrSoilReads

RrInputs(s, e) ==
  [dht : {e.dht}, temp : TempReads, hum : HumReads, ldr : LdrReads, air : AirReads,
   rain : IF RrWillRead(s) THEN RrRainReads ELSE {NoInput.rain},
   soil : IF RrWillRead(s) THEN RrSoilAnswers(e) ELSE {NoInput.soil},
   wifi : {e.wifi},
   assoc : {e.assoc},
   ntp : {e.ntp},
   connect : IF RrWillSend(s) /\ e.wifi = "up" THEN BOOLEAN ELSE {TRUE},
   http : IF RrWillSend(s) /\ e.wifi = "up" THEN RrHttpStatus ELSE {NoInput.http}]

RrSetupInputs(e) ==
  [dht : {e.dht}, temp : TempReads, hum : HumReads, ldr : LdrReads, air : AirReads,
   rain : RrRainReads, soil : RrSoilAnswers(e),
   wifi : {IF e.wifi = "down" THEN "down" ELSE "up"},
   assoc : IF e.wifi = "down" THEN {NoAssoc} ELSE SetupAssocs,
   ntp : {e.ntp},
   connect : {TRUE}, http : {NoInput.http}]

\* the time to the next instant at which a time comparison changes its value
RrNextMark(s) ==
  LET D == UNION {{m - s.age[x] : m \in {n \in RrMarks(x) : n > s.age[x]}} : x \in RrStamps}
  IN IF D = {} THEN LOOP_DELAY ELSE SetMin(D)

\* a loop() iteration that changes nothing but the clock
RrQuiet(s, r) == [r EXCEPT !.ran = s.ran] = RrDelay(s, LOOP_DELAY)

(***************************************************************************)
(* Actions of the task-state firmware.                                     *)
(***************************************************************************)
TsSetup ==
  /\ firmware = "task"
  /\ ts.pc = "setup"
  /\ \E in \in SetupInputs(env) : ts' = setup(ts, in)
  /\ UNCHANGED <<firmware, rr, env>>

\* r, the state after one loop() iteration, differs from ts by more than the clock
TsTake(r) == ~TsQuiet(ts, r) /\ ts' = r

\* r differs from ts by the clock only: the next iterations do the same, up
\* to the next time mark or until the soil channel answers otherwise
TsSkip(r) ==
  /\ TsQuiet(ts, r)
  /\ \E d \in TsNaps(ts, r) : ts' = [Delay(ts, d) EXCEPT !.ran = r.ran]

\* one loop() iteration that changes the state
TsLoop ==
  /\ firmware = "task"
  /\ ts.pc = "loop"
  /\ \E in \in TsInputs(ts, env) : TsTake(loop(ts, in))
  /\ UNCHANGED <<firmware, rr, env>>

\* loop() iterations that change nothing but the clock
TsSleep ==
  /\ firmware = "task"
  /\ ts.pc = "loop"
  /\ \E in \in TsInputs(ts, env) : TsSkip(loop(ts, in))
  /\ UNCHANGED <<firmware, rr, env>>

\* NTP_UPDATE_INTERVAL (one day) has passed since lastNTPUpdateTime was set;
\* the firmware reads this only while the time is not initialised
TsDay ==
  /\ firmware = "task"
  /\ ts.pc = "loop"
  /\ ~ts.ntpDue /\ ~ts.timeInitialized
  /\ \A x \in {"lastLCDUpdateTime", "lastLCDModeChangeTime", "lastServerSendTime",
               "lastDBRetryTime", "dbTaskStartTime"} : ts.age[x] = TsCap(x)
  /\ ts' = [ts EXCEPT !.ntpDue = TRUE]
  /\ UNCHANGED <<firmware, rr, env>>

InitTs ==
  firmware = "task" /\ ts = Settle(TsBoot) /\ rr = RrBoot /\ env \in Environments

NextTs == TsSetup \/ TsLoop \/ TsSleep \/ TsDay

SpecTs == InitTs /\ [][NextTs]_vars

\* a run of more than one quiet iteration (TsSkip with a jump to the next
\* time mark) starts only where the answers of the environment make no
\* difference to the iteration, or where the soil channel is polled and the
\* run can end after any iteration
TsSleepSound ==
  (firmware = "task" /\ ts.pc = "loop" /\ TsNextMark(ts) > LOOP_DELAY) =>
    \A a \in TsInputs(ts, env) :
      (TsQuiet(ts, loop(ts, a)) /\ ~TsPolls(loop(ts, a)))
        => \A b \in TsInputs(ts, env) : TsQuiet(ts, loop(ts, b))

\* The task-state firmware on an installation whose analog connector has a
\* loose contact.
LooseEnvironments == Installations({"loose"})

InitTsLoose ==
  firmware = "task" /\ ts = Settle(TsBoot) /\ rr = RrBoot /\ env \in LooseEnvironments

SpecTsLoose == InitTsLoose /\ [][NextTs]_vars

\* The task-state firmware with rain and soil levels at the thresholds of the
\* watering decision, the radio associated or out of reach.
EdgeEnvironments == {e \in Installations({"edge"}) : e.wifi # "reconnect"}

InitTsEdge ==
  firmware = "task" /\ ts = Settle(TsBoot) /\ rr = RrBoot /\ env \in EdgeEnvironments

SpecTsEdge == InitTsEdge /\ [][NextTs]_vars

(***************************************************************************)
(* Actions of the round-robin firmware.                                    *)
(***************************************************************************)
RrSetup ==
  /\ firmware = "round"
  /\ rr.pc = "setup"
  /\ \E in \in RrSetupInputs(env) : rr' = setupRr(rr, in)
  /\ UNCHANGED <<firmware, ts, env>>

\* r, the state after one loop() iteration, differs from rr by more than the clock
RrTake(r) == ~RrQuiet(rr, r) /\ rr' = r

\* r differs from rr by the clock only
RrSkip(r) == RrQuiet(rr, r) /\ rr' = [RrDelay(rr, RrNextMark(rr)) EXCEPT !.ran = r.ran]

RrLoop ==
  /\ firmware = "round"
  /\ rr.pc = "loop"
  /\ \E in \in RrInputs(rr, env) : RrTake(loopRr(rr, in))
  /\ UNCHANGED <<firmware, ts, env>>

RrSleep ==
  /\ firmware = "round"
  /\ rr.pc = "loop"
  /\ \E in \in RrInputs(rr, env) : RrSkip(loopRr(rr, in))
  /\ UNCHANGED <<firmware, ts, env>>

InitRr ==
  firmware = "round" /\ rr = RrSettle(RrBoot) /\ ts = TsBoot /\ env \in Environments

NextRr == RrSetup \/ RrLoop \/ RrSleep

SpecRr == InitRr /\ [][NextRr]_vars

(***************************************************************************)
(* Either firmware image on the board.                                     *)
(***************************************************************************)
Init == InitTs \/ InitRr

Next == TsSetup \/ TsLoop \/ TsSleep \/ TsDay \/ RrSetup \/ RrLoop \/ RrSleep

Spec == Init /\ [][Next]_vars

(***************************************************************************)
(* getSensorStatus(), the same function in both firmwares, and the calls   *)
(* that the display code makes of it.  In the specification SpecStatus the *)
(* variable env is one call: its arguments and, once the function has      *)
(* returned, its result.                                                   *)
(***************************************************************************)
SOIL_MEDIUM == 400
LIGHT_MEDIUM == 400
TS_LIGHT_LOW == 750
TS_RAIN_MEDIUM == 890
RR_LIGHT_LOW == 600
AIR_QUALITY_LOW == 400
AIR_QUALITY_MEDIUM == 800

\* a faulty variant of getSensorStatus, which takes a value at a threshold for
\* the tier below it; StatusTiers tells it from the source
getSensorStatusInclusive(value, lowThreshold, mediumThreshold, invertLogic) ==
  IF invertLogic
  THEN IF value > mediumThreshold THEN "LOW"
       ELSE IF value > lowThreshold THEN "MEDIUM"
       ELSE "HIGH"
  ELSE IF value <= lowThreshold THEN "LOW"
       ELSE IF value <= mediumThreshold THEN "MEDIUM"
       ELSE "HIGH"

getSensorStatus(value, lowThreshold, mediumThreshold, invertLogic) ==
  IF invertLogic
  THEN IF value > mediumThreshold THEN "LOW"
       ELSE IF value > lowThreshold THEN "MEDIUM"
       ELSE "HIGH"
  ELSE IF value < lowThreshold THEN "LOW"
       ELSE IF value < mediumThreshold THEN "MEDIUM"
       ELSE "HIGH"

\* the thresholds and the flag of the calls in the display code
StatusUses ==
  {[sensor |-> "soil", lowThreshold |-> SOIL_LOW, mediumThreshold |-> SOIL_MEDIUM,
    invertLogic |-> FALSE],
   [sensor |-> "air", lowThreshold |-> AIR_QUALITY_LOW,
    mediumThreshold |-> AIR_QUALITY_MEDIUM, invertLogic |-> FALSE],
   [sensor |-> "light", lowThreshold |-> TS_LIGHT_LOW, mediumThreshold |-> LIGHT_MEDIUM,
    invertLogic |-> TRUE],
   [sensor |-> "rain", lowThreshold |-> RAIN_LOW, mediumThreshold |-> TS_RAIN_MEDIUM,
    invertLogic |-> TRUE],
   [sensor |-> "light", lowThreshold |-> RR_LIGHT_LOW, mediumThreshold |-> LIGHT_MEDIUM,
    invertLogic |-> TRUE],
   [sensor |-> "rain", lowThreshold |-> RAIN_LOW, mediumThreshold |-> RAIN_MEDIUM,
    invertLogic |-> TRUE]}

\* the raw values of an analog channel
StatusValues == 0..ADC_MAX

StatusCall(use, value) == [use |-> use, value |-> value, status |-> "none"]

InitStatus ==
  /\ firmware = "status"
  /\ ts = TsBoot
  /\ rr = RrBoot
  /\ env \in {StatusCall(use, value) : use \in StatusUses, value \in StatusValues}

\* the call returns
StatusReturn ==
  /\ firmware = "status"
  /\ env.status = "none"
  /\ env' = [env EXCEPT !.status = getSensorStatus(env.value, env.use.lowThreshold,
                                                   env.use.mediumThreshold,
                                                   env.use.invertLogic)]
  /\ UNCHANGED <<firmware, ts, rr>>

NextStatus == StatusReturn

SpecStatus == InitStatus /\ [][NextStatus]_vars

(***************************************************************************)
(* The ingestion service, in its two variants: src/backend/server.js       *)
(* ("plain") and src/unnamed/part_000 ("cached", with the response cache   *)
(* of getCachedData).  The state of the service is the record env:         *)
(*   table  the number of rows of sensor_data, the rows being numbered     *)
(*          1, 2, ... in the order of insertion;                           *)
(*   cache  the entry of key 'latest': data is the number of rows the      *)
(*          table held when the cached result was selected;                *)
(*   posts, gets  one record per request handler in progress;              *)
(*   boot   the start-up code (initializeDatabase() of part_000, the       *)
(*          callbacks of db.connect() of server.js), which runs while the  *)
(*          service answers requests: pc is the statement it has sent, at  *)
(*          tells whether the database has executed it and with what       *)
(*          answer, left is the number of sample INSERTs of the plain      *)
(*          variant still to be executed;                                  *)
(*   queue  the statements sent over the single connection of the plain    *)
(*          variant and not yet executed, in the order in which they were  *)
(*          sent.                                                          *)
(* A handler, and the start-up code, runs to its next await (or callback)  *)
(* in one step; the database executes a statement in a step of its own.    *)
(***************************************************************************)
SensorFields ==
  {"temperature", "humidity", "ldrValue", "rainValue", "airQualityPPM", "soilMoisture"}

BodyFields == SensorFields \cup {"timestamp"}

\* what a field of a JSON body can be
JsonKinds == {"number", "string", "null", "absent"}

\* a body as the firmware sends it
GoodBody == [f \in BodyFields |-> IF f = "timestamp" THEN "string" ELSE "number"]

\* the request bodies: the firmware's, and those that differ from it in one
\* field
Bodies ==
  {GoodBody} \cup {[GoodBody EXCEPT ![f] = k] : f \in BodyFields, k \in JsonKinds}

PostHandlers == {"p1", "p2"}
GetHandlers == {"g1", "g2"}

\* a faulty variant of the validation, which tests only that the fields are
\* present; InvalidBodyRefused tells it from the source
BackendValidatePresence(variant, body) ==
  \A f \in SensorFields : body[f] # "absent"

\* validateSensorData(data) of either variant: typeof value === 'number'
BackendValidate(variant, body) ==
  IF variant = "cached"
  THEN /\ \A f \in SensorFields : body[f] # "absent"
       /\ \A f \in SensorFields : body[f] = "number"
  ELSE /\ \A f \in SensorFields : body[f] = "number"
       /\ body["timestamp"] = "string"

EmptyCache == [has |-> FALSE, data |-> 0, fresh |-> FALSE]

PostIdle == [pc |-> "idle", status |-> 0, row |-> 0]
GetIdle == [pc |-> "idle", status |-> 0, after |-> 0, result |-> 0]

\* the rows of Array.from({ length: 10 }, ...)
SAMPLE_ROWS == 10

\* the rows sensor_data holds when the service is started: none, or one of
\* an earlier run
StartRows == {0, 1}

\* db.query(): the plain variant has one connection (mysql.createConnection),
\* which executes the statements in the order in which they were sent; the
\* cached variant has a pool of connections, more than the model has
\* statements in flight, and its statements are executed in any order.
\* x is the handler that sends, or "boot"
DbSend(e, x) == IF e.variant = "plain" THEN [e EXCEPT !.queue = Append(@, x)] ELSE e

\* the database can execute the statement of x next
DbTurn(e, x) == e.variant = "cached" \/ (e.queue # <<>> /\ Head(e.queue) = x)

\* the statement at the head of the connection has been executed
DbDone(e) == IF e.variant = "plain" THEN [e EXCEPT !.queue = Tail(@)] ELSE e

\* the statements of the start-up code up to its count, in the order in which
\* it sends them, each when the one before has been answered
BootStatements(variant) ==
  IF variant = "cached"
  THEN <<"createdb", "use", "createtable", "count">>
  ELSE <<"connect", "createdb", "use", "createtable", "count">>

\* the statement the start-up code sends after pc
BootAfter(variant, pc) ==
  BootStatements(variant)[(CHOOSE i \in DOMAIN BootStatements(variant) :
                             BootStatements(variant)[i] = pc) + 1]

BootSent(pc, left) == [pc |-> pc, at |-> "sent", left |-> left]
BootDone == [pc |-> "done", at |-> "over", left |-> 0]
BootFailed == [pc |-> "failed", at |-> "over", left |-> 0]

\* the service when the module has been loaded: the start-up code has sent
\* its first statement
BackendStart(variant, rows) ==
  DbSend([variant |-> variant, table |-> rows, cache |-> EmptyCache,
          posts |-> [p \in PostHandlers |-> PostIdle],
          gets |-> [g \in GetHandlers |-> GetIdle],
          boot |-> BootSent(BootStatements(variant)[1], 0),
          queue |-> <<>>],
         "boot")

\* the database executes db.connect(), CREATE DATABASE, USE or CREATE TABLE,
\* whichever the start-up code has sent, or fails
DbSchema(e, ok) == [DbDone(e) EXCEPT !.boot.at = IF ok THEN "ok" ELSE "err"]

\* the start-up code resumes after one of these statements: it gives up on
\* an error, else it sends the next statement
SchemaNext(e) ==
  IF e.boot.at = "err"
  THEN [e EXCEPT !.boot = BootFailed]
  ELSE DbSend([e EXCEPT !.boot = BootSent(BootAfter(e.variant, e.boot.pc), 0)], "boot")

\* the database executes SELECT COUNT(*) FROM sensor_data, or fails
DbCount(e, ok) ==
  [DbDone(e) EXCEPT !.boot.at = IF ~ok THEN "err"
                                ELSE IF e.table = 0 THEN "empty" ELSE "filled"]

\* the sample INSERTs: one of 10 rows in the cached variant, one for each row
\* (forEach) in the plain variant
SeedStatements(variant) == IF variant = "cached" THEN 1 ELSE SAMPLE_ROWS
SeedRows(variant) == IF variant = "cached" THEN SAMPLE_ROWS ELSE 1

\* db.query() called n times by the start-up code
RECURSIVE SeedSend(_, _)
SeedSend(e, n) == IF n = 0 THEN e ELSE DbSend(SeedSend(e, n - 1), "boot")

\* the start-up code resumes after its count: it gives up on an error; if
\* (count === 0) it sends the sample INSERTs, all of them in this step
SeedStart(e) ==
  CASE e.boot.at = "err" -> [e EXCEPT !.boot = BootFailed]
    [] e.boot.at = "filled" -> [e EXCEPT !.boot = BootDone]
    [] e.boot.at = "empty" ->
         SeedSend([e EXCEPT !.boot = BootSent("seed", SeedStatements(e.variant))],
                  SeedStatements(e.variant))

\* the database executes one sample INSERT, or fails.  The callback of the
\* plain variant only logs the error: the start-up code is over when the
\* last of its INSERTs has been executed.  The cached variant awaits the
\* answer.  Neither variant touches the cache.
DbSeed(e, ok) ==
  [DbDone(e) EXCEPT
     !.table = IF ok THEN @ + SeedRows(e.variant) ELSE @,
     !.boot = IF e.variant = "cached"
              THEN [@ EXCEPT !.at = IF ok THEN "ok" ELSE "err", !.left = 0]
              ELSE IF e.boot.left = 1 THEN BootDone
              ELSE [@ EXCEPT !.left = @ - 1]]

\* the start-up code of the cached variant resumes after its INSERT
SeedEnd(e) == [e EXCEPT !.boot = IF e.boot.at = "ok" THEN BootDone ELSE BootFailed]

\* the POST handler up to its query: status 400 for a body that fails the
\* validation, else the INSERT is sent to the database
PostReceive(e, p, body) ==
  IF ~BackendValidate(e.variant, body)
  THEN [e EXCEPT !.posts[p] = [@ EXCEPT !.pc = "done", !.status = 400]]
  ELSE DbSend([e EXCEPT !.posts[p].pc = "inserting"], p)

\* the database executes the INSERT of handler p, or fails
DbInsert(e, p, ok) ==
  IF ok
  THEN [DbDone(e) EXCEPT !.table = @ + 1,
                         !.posts[p] = [@ EXCEPT !.pc = "inserted", !.row = e.table + 1]]
  ELSE [DbDone(e) EXCEPT !.posts[p].pc = "failed"]

\* cache.clear()
CacheClear(e) == IF e.variant = "cached" THEN [e EXCEPT !.cache = EmptyCache] ELSE e

\* the POST handler after its query
PostReturn(e, p) ==
  IF e.posts[p].pc = "inserted"
  THEN [CacheClear(e) EXCEPT !.posts[p] = [@ EXCEPT !.pc = "done", !.status = 200]]
  ELSE [e EXCEPT !.posts[p] = [@ EXCEPT !.pc = "done", !.status = 500]]

\* the highest row whose POST has been answered with status 200
Answered(e) ==
  SetMax({0} \cup {e.posts[p].row : p \in {q \in PostHandlers : e.posts[q].status = 200}})

\* cached && Date.now() - cached.timestamp < ttl
CacheHit(e) == e.variant = "cached" /\ e.cache.has /\ e.cache.fresh

\* the GET /api/sensors/latest handler up to its query: the cached result is
\* returned, or the SELECT is sent to the database.  after is the highest row
\* whose POST had been answered when the handler started.
GetReceive(e, g) ==
  IF CacheHit(e)
  THEN [e EXCEPT !.gets[g] = [@ EXCEPT !.pc = "done", !.status = 200,
                                       !.after = Answered(e),
                                       !.result = e.cache.data]]
  ELSE DbSend([e EXCEPT !.gets[g] = [@ EXCEPT !.pc = "selecting", !.after = Answered(e)]],
              g)

\* the database executes the SELECT of handler g, or fails
DbSelect(e, g, ok) ==
  IF ok
  THEN [DbDone(e) EXCEPT !.gets[g] = [@ EXCEPT !.pc = "selected", !.result = e.table]]
  ELSE [DbDone(e) EXCEPT !.gets[g].pc = "failed"]

\* cache.set(key, { data, timestamp: Date.now() })
CacheSet(e, data) ==
  IF e.variant = "cached"
  THEN [e EXCEPT !.cache = [has |-> TRUE, data |-> data, fresh |-> TRUE]]
  ELSE e

\* the GET handler after its query
GetReturn(e, g) ==
  IF e.gets[g].pc = "selected"
  THEN [CacheSet(e, e.gets[g].result) EXCEPT !.gets[g] = [@ EXCEPT !.pc = "done", !.status = 200]]
  ELSE [e EXCEPT !.gets[g] = [@ EXCEPT !.pc = "done", !.status = 500, !.result = 0]]

InitBackend ==
  /\ firmware = "backend"
  /\ ts = TsBoot
  /\ rr = RrBoot
  /\ env \in {BackendStart(v, n) : v \in {"plain", "cached"}, n \in StartRows}

PostArrives ==
  /\ firmware = "backend"
  /\ \E p \in PostHandlers :
       /\ env.posts[p].pc = "idle"
       /\ \E body \in Bodies : env' = PostReceive(env, p, body)
  /\ UNCHANGED <<firmware, ts, rr>>

InsertRuns ==
  /\ firmware = "backend"
  /\ \E p \in PostHandlers :
       /\ env.posts[p].pc = "inserting"
       /\ DbTurn(env, p)
       /\ \E ok \in BOOLEAN : env' = DbInsert(env, p, ok)
  /\ UNCHANGED <<firmware, ts, rr>>

PostAnswers ==
  /\ firmware = "backend"
  /\ \E p \in PostHandlers :
       /\ env.posts[p].pc \in {"inserted", "failed"}
       /\ env' = PostReturn(env, p)
  /\ UNCHANGED <<firmware, ts, rr>>

GetArrives ==
  /\ firmware = "backend"
  /\ \E g \in GetHandlers :
       /\ env.gets[g].pc = "idle"
       /\ env' = GetReceive(env, g)
  /\ UNCHANGED <<firmware, ts, rr>>

SelectRuns ==
  /\ firmware = "backend"
  /\ \E g \in GetHandlers :
       /\ env.gets[g].pc = "selecting"
       /\ DbTurn(env, g)
       /\ \E ok \in BOOLEAN : env' = DbSelect(env, g, ok)
  /\ UNCHANGED <<firmware, ts, rr>>

GetAnswers ==
  /\ firmware = "backend"
  /\ \E g \in GetHandlers :
       /\ env.gets[g].pc \in {"selected", "failed"}
       /\ env' = GetReturn(env, g)
  /\ UNCHANGED <<firmware, ts, rr>>

SchemaRuns ==
  /\ firmware = "backend"
  /\ env.boot.pc \in {"connect", "createdb", "use", "createtable"}
  /\ env.boot.at = "sent"
  /\ DbTurn(env, "boot")
  /\ \E ok \in BOOLEAN : env' = DbSchema(env, ok)
  /\ UNCHANGED <<firmware, ts, rr>>

SchemaAnswers ==
  /\ firmware = "backend"
  /\ env.boot.pc \in {"connect", "createdb", "use", "createtable"}
  /\ env.boot.at \in {"ok", "err"}
  /\ env' = SchemaNext(env)
  /\ UNCHANGED <<firmware, ts, rr>>

CountRuns ==
  /\ firmware = "backend"
  /\ env.boot.pc = "count"
  /\ env.boot.at = "sent"
  /\ DbTurn(env, "boot")
  /\ \E ok \in BOOLEAN : env' = DbCount(env, ok)
  /\ UNCHANGED <<firmware, ts, rr>>

SeedStarts ==
  /\ firmware = "backend"
  /\ env.boot.pc = "count"
  /\ env.boot.at \in {"empty", "filled", "err"}
  /\ env' = SeedStart(env)
  /\ UNCHANGED <<firmware, ts, rr>>

SeedRuns ==
  /\ firmware = "backend"
  /\ env.boot.pc = "seed"
  /\ env.boot.at = "sent"
  /\ DbTurn(env, "boot")
  /\ \E ok \in BOOLEAN : env' = DbSeed(env, ok)
  /\ UNCHANGED <<firmware, ts, rr>>

SeedEnds ==
  /\ firmware = "backend"
  /\ env.boot.pc = "seed"
  /\ env.boot.at \in {"ok", "err"}
  /\ env' = SeedEnd(env)
  /\ UNCHANGED <<firmware, ts, rr>>

\* CACHE_TTL passes since the entry was set
CacheExpires ==
  /\ firmware = "backend"
  /\ CacheHit(env)
  /\ env' = [env EXCEPT !.cache.fresh = FALSE]
  /\ UNCHANGED <<firmware, ts, rr>>

NextBackend ==
  \/ PostArrives \/ InsertRuns \/ PostAnswers
  \/ GetArrives \/ SelectRuns \/ GetAnswers
  \/ CacheExpires
  \/ SchemaRuns \/ SchemaAnswers \/ CountRuns \/ SeedStarts \/ SeedRuns \/ SeedEnds

SpecBackend == InitBackend /\ [][NextBackend]_vars

(***************************************************************************)
(* One soil moisture reading classified twice: by getSensorStatus() for    *)
(* the LCD and by getStatus() of the ingestion service for the dashboard   *)
(* (src/backend/server.js).                                                *)
(***************************************************************************)
BACKEND_SOIL_LOW == 200
BACKEND_SOIL_HIGH == 400

\* getStatus(value, lowThreshold, highThreshold, isInverted = false)
getStatus(value, lowThreshold, highThreshold, isInverted) ==
  IF isInverted
  THEN IF value > highThreshold THEN "low"
       ELSE IF value < lowThreshold THEN "high"
       ELSE "medium"
  ELSE IF value < lowThreshold THEN "low"
       ELSE IF value > highThreshold THEN "high"
       ELSE "medium"

SoilReading(value) == [value |-> value, lcd |-> "none", dashboard |-> "none"]

InitTiers ==
  /\ firmware = "tiers"
  /\ ts = TsBoot
  /\ rr = RrBoot
  /\ env \in {SoilReading(value) : value \in StatusValues}

\* the firmware prints the soil status
LcdClassifies ==
  /\ firmware = "tiers"
  /\ env.lcd = "none"
  /\ env' = [env EXCEPT !.lcd = getSensorStatus(env.value, SOIL_LOW, SOIL_MEDIUM, FALSE)]
  /\ UNCHANGED <<firmware, ts, rr>>

\* GET /api/sensors/latest computes the status of the stored reading
DashboardClassifies ==
  /\ firmware = "tiers"
  /\ env.dashboard = "none"
  /\ env' = [env EXCEPT !.dashboard =
                          getStatus(env.value, BACKEND_SOIL_LOW, BACKEND_SOIL_HIGH, FALSE)]
  /\ UNCHANGED <<firmware, ts, rr>>

NextTiers == LcdClassifies \/ DashboardClassifies

SpecTiers == InitTiers /\ [][NextTiers]_vars

(***************************************************************************)
(* Properties.  s.ran is the list of the functions executed and of the     *)
(* pin writes of the last loop() iteration, in the order in which they     *)
(* were made.                                                              *)
(***************************************************************************)
\* the state in which loop() enters its switch (currentState)
BeforeSwitch(s, in) ==
  LoopDisplay(
    LoopUpload(
      LoopSensors(
        LoopError(LoopStart(s, in)),
        in), in), in)

\* every age has reached its cap: the passing of time changes no comparison
TsAtRest(s) == \A x \in TsStamps : s.age[x] = TsCap(x)

\* r, the state after one more loop() iteration, is s again and the iteration
\* has started no acquisition
TsIdle(s, r) == [r EXCEPT !.ran = s.ran] = s /\ ~Called(r, "startSensorReading")

TsFixed(s, e) == \A in \in TsInputs(s, e) : TsIdle(s, loop(s, in))

\* whatever the sensors and the network answer from now on, and however long
\* the board runs, loop() changes no global and starts no acquisition
TsFrozen(s) ==
  /\ s.pc = "loop"
  /\ TsAtRest(s)
  /\ \A e \in Environments : TsFixed(s, e) /\ TsFixed([s EXCEPT !.ntpDue = TRUE], e)

\* C1: task-state firmware: while the pump pin is HIGH no more than
\* PUMP_TIME_THRESHOLD has passed since it was driven HIGH.
PumpOffInTime ==
  ts.pump = "HIGH" => Since(ts, "pumpStartTime") <= PUMP_TIME_THRESHOLD

\* C2: round-robin firmware: while the pump pin is HIGH and no stored soil
\* value has exceeded SOIL_LOW since the activation, no more than
\* MAX_PUMP_DURATION has passed since the activation.
RrPumpOffInTime ==
  (rr.pump = "HIGH" /\ ~rr.soilAbove) => Since(rr, "pumpStartTime") <= MAX_PUMP_DURATION

\* C3: in both firmwares a loop() iteration that drives the pump pin HIGH
\* leaves a stored soil moisture below the dryness threshold (the stored
\* value is the one the decision read: no acquisition follows the decision
\* within the iteration), whatever the stored rain value is.
NoWateringOfWetSoil ==
  /\ Called(ts, "pumpHigh") => ts.sensorData.soilMoisture < SOIL_THRESHOLD
  /\ Called(rr, "pumpHigh") => rr.sensorData.soilMoisture < SOIL_LOW

NoWateringOfWetSoilWitness ==
  \/ (firmware = "task" /\ Called(ts, "pumpHigh") /\ ts.pump = "HIGH"
        /\ ts.sensorData.rainValue >= LIGHT_RAIN_THRESHOLD)
  \/ (firmware = "round" /\ Called(rr, "pumpHigh") /\ rr.pump = "HIGH"
        /\ rr.sensorData.rainValue >= RAIN_LOW)

\* C4: task-state firmware: no state between two loop() iterations has the
\* pump pin HIGH with currentState outside the two watering states, the only
\* states in which loop() calls continueWatering().
PumpOnlyInWateringStates ==
  (ts.pc = "loop" /\ ts.pump = "HIGH")
    => ts.currentState \in {"STATE_EVALUATE_WATERING", "STATE_WATERING"}

\* the skip path from m, the state in which loop() enters case
\* STATE_EVALUATE_WATERING
SkipPathFrom(m, in) ==
  /\ m.pump = "LOW"
  /\ startWatering(m).wateringTaskState = "TASK_COMPLETED"
  /\ startWatering(m).pump = "LOW"
  /\ StateMachine(m, in).pump = "LOW"
  /\ ~Called(StateMachine(m, in), "pumpHigh")
  /\ ~Called(StateMachine(m, in), "continueWatering")

SkipPathAt(m, in) ==
  (m.currentState = "STATE_EVALUATE_WATERING"
     /\ m.wateringTaskState = "TASK_IDLE"
     /\ m.sensorData.soilMoisture < SOIL_THRESHOLD
     /\ m.sensorData.rainValue < HEAVY_RAIN_THRESHOLD)
    => SkipPathFrom(m, in)

\* C5: task-state firmware: whenever loop() enters case
\* STATE_EVALUATE_WATERING with the watering task idle, the stored soil
\* moisture below SOIL_THRESHOLD and the stored rain value below
\* HEAVY_RAIN_THRESHOLD, the pump is LOW before, startWatering() leaves the
\* task TASK_COMPLETED with the pump LOW, and the rest of the case neither
\* calls continueWatering() nor drives the pump HIGH.
SkipPath ==
  ts.pc = "loop" => \A in \in TsInputs(ts, env) : SkipPathAt(BeforeSwitch(ts, in), in)

\* an iteration has just taken the skip path
SkipPathWitness ==
  /\ Called(ts, "startWatering")
  /\ ts.sensorData.soilMoisture < SOIL_THRESHOLD
  /\ ts.sensorData.rainValue < HEAVY_RAIN_THRESHOLD
  /\ ts.pump = "LOW"
  /\ ts.currentState = "STATE_DISPLAY_DATA"

\* C6: task-state firmware: whenever wateringTaskState is not TASK_RUNNING
\* the pump pin is LOW, and an iteration that has called startWatering() or
\* continueWatering() and left the task out of TASK_RUNNING has driven the
\* pump LOW.
PumpLowUnlessRunning ==
  /\ ts.wateringTaskState # "TASK_RUNNING" => ts.pump = "LOW"
  /\ ((Called(ts, "startWatering") \/ Called(ts, "continueWatering"))
        /\ ts.wateringTaskState # "TASK_RUNNING")
       => Called(ts, "pumpLow")

\* an iteration has ended a watering during which the pump was HIGH
PumpLowUnlessRunningWitness ==
  /\ Called(ts, "continueWatering")
  /\ ~Called(ts, "pumpHigh")
  /\ Called(ts, "pumpLow")
  /\ ts.wateringTaskState # "TASK_RUNNING"
  /\ ts.pump = "LOW"

\* the uplink has failed and the error code it has set is still the current one
UplinkFailurePending(s) ==
  s.dbTaskState = "TASK_FAILED" /\ s.currentError \in {ERROR_WIFI, ERROR_SERVER}

\* the step is a loop() iteration (the other step of the model only raises ntpDue)
IterationStep == ts.pc = "loop" /\ ~(~ts.ntpDue /\ ts'.ntpDue)

\* the conditions under which loop() starts an acquisition and a display update
AcquisitionDue(s) ==
  s.sensorTaskState = "TASK_IDLE" /\ Since(s, "lastSensorReadTime") >= SENSOR_READ_INTERVAL

DisplayDue(s) ==
  s.displayTaskState = "TASK_IDLE" /\ Since(s, "lastLCDUpdateTime") >= LCD_UPDATE_INTERVAL

\* the iteration from s to r has started the acquisition and the display
\* update that were due, has not taken the state machine out of a watering
\* state by force, and has continued a watering in progress
TasksRan(s, r) ==
  /\ AcquisitionDue(s) => Called(r, "startSensorReading")
  /\ DisplayDue(s) => Called(r, "updateDisplay")
  /\ TsMayPoll(s) => ~Called(r, "forceRead")
  /\ (TsMayPoll(s) /\ s.wateringTaskState = "TASK_RUNNING") => Called(r, "continueWatering")

\* C7: task-state firmware: a loop() iteration in which the uplink ends
\* TASK_FAILED, and every later iteration that begins with the uplink's
\* ERROR_WIFI or ERROR_SERVER as the current error, starts the acquisition
\* and the display update that are due, leaves a watering state to its case
\* of the switch, and continues a watering in progress.
UplinkFailureIsolated ==
  [][(IterationStep
        /\ (UplinkFailurePending(ts)
              \/ (Called(ts', "startDataUpload") /\ ts'.dbTaskState = "TASK_FAILED")))
       => TasksRan(ts, ts')]_vars

\* an iteration that began with the uplink's error has shown it, and has
\* evaluated the watering and switched the pump on
UplinkFailureIsolatedWitness ==
  /\ ts.dbTaskState = "TASK_FAILED"
  /\ Called(ts, "warning")
  /\ ts.lastDisplayedError \in {ERROR_WIFI, ERROR_SERVER}
  /\ Called(ts, "startWatering")
  /\ Called(ts, "pumpHigh")

\* C8: task-state firmware: no reachable state has a failed uplink that is
\* never retried: a state with dbTaskState = TASK_FAILED in which no answer
\* of the environment and no passing of time makes loop() change a global.
FailedUplinkRetried == ~(TsFrozen(ts) /\ ts.dbTaskState = "TASK_FAILED")

\* C9: task-state firmware: once the iteration in which the uplink failed is
\* over, dataTransmissionErrors has counted the failure.
UplinkFailuresCounted ==
  (ts.pc = "loop" /\ ts.dbTaskState = "TASK_FAILED" /\ ~Called(ts, "startDataUpload"))
    => ts.dataTransmissionErrors >= 1

\* C10: task-state firmware: no reachable state is one from which loop()
\* never again changes currentState or a task state and never again starts
\* an acquisition.
AcquisitionRecurs == ~TsFrozen(ts)

\* the states in which loop() reaches its acquisition step and its uplink step
BeforeSensors(s, in) == LoopError(LoopStart(s, in))

BeforeUpload(s, in) == LoopSensors(BeforeSensors(s, in), in)

\* the step from m to r has not put a code of lower severity in the place of
\* the code that was active in m
SeverityKeptBy(m, r) ==
  ~(r.currentError # ERROR_NONE /\ r.currentError < m.currentError)

\* C11: task-state firmware: neither the acquisition step nor the uplink step
\* of a loop() iteration replaces the active error code by a code that comes
\* earlier in enum ErrorCode.
SeverityKept ==
  ts.pc = "loop" =>
    \A in \in TsInputs(ts, env) :
      /\ SeverityKeptBy(BeforeSensors(ts, in), LoopSensors(BeforeSensors(ts, in), in))
      /\ SeverityKeptBy(BeforeUpload(ts, in), LoopUpload(BeforeUpload(ts, in), in))

\* C12: task-state firmware: the acquisition step of a loop() iteration that
\* it reaches with ERROR_WIFI or ERROR_SERVER active does not end with
\* currentError = ERROR_NONE.
UplinkErrorOutlivesAcquisition ==
  ts.pc = "loop" =>
    \A in \in TsInputs(ts, env) :
      BeforeSensors(ts, in).currentError \in {ERROR_WIFI, ERROR_SERVER}
        => LoopSensors(BeforeSensors(ts, in), in).currentError # ERROR_NONE

\* C13: task-state firmware: a loop() iteration that began with no active
\* error and has started an acquisition less than SENSOR_READ_INTERVAL ago
\* leaves an error that has been active for less than ERROR_DISPLAY_TIMEOUT;
\* handleError() in the next iteration attempts no remedy and does not force
\* currentState to STATE_READ_SENSORS.
RemedyAfterTimeout ==
  [][(IterationStep
        /\ ~Called(ts, "handleError")
        /\ Called(ts, "startSensorReading")
        /\ Since(ts, "lastSensorReadTime") < SENSOR_READ_INTERVAL)
       => ~Called(ts', "forceRead")]_vars

\* the state in which setup() reaches its acquisition
BeforeSetupReading(s, in) ==
  SetupWifi([s EXCEPT !.pump = "LOW", !.lastDisplayedError = ERROR_NONE,
                      !.wifi = in.wifi], in)

\* the independent channels: the field of sensorData, the error code and the
\* default value the source gives each of them
Channels ==
  [ldr |-> [field |-> "ldrValue", code |-> ERROR_LDR, default |-> 500],
   rain |-> [field |-> "rainValue", code |-> ERROR_RAIN, default |-> 1000],
   air |-> [field |-> "airQuality", code |-> ERROR_AIR, default |-> 300],
   soil |-> [field |-> "soilMoisture", code |-> ERROR_SOIL, default |-> 500]]

\* channel c, read out of range by the acquisition from m to r: its field is
\* the one before (or the default, when no acquisition has filled sensorData
\* yet) and the error code at the end of the acquisition is the channel's
FallsBack(m, r, in, c) ==
  ~InRange(in[c]) =>
    /\ \/ r.sensorData[Channels[c].field] = m.sensorData[Channels[c].field]
       \/ (~m.sensorData.isValid /\ r.sensorData[Channels[c].field] = Channels[c].default)
    /\ r.currentError = Channels[c].code

AcquisitionFallsBack(m, r, in) ==
  Called(r, "startSensorReading") => \A c \in DOMAIN Channels : FallsBack(m, r, in, c)

\* C14: task-state firmware: every acquisition, in setup() and in loop(),
\* leaves for each independent channel read outside 0..1023 the field it had
\* (or the channel's default when there was no reading yet) and ends with
\* that channel's error code in currentError, whichever other channels are
\* out of range in the same acquisition.
OutOfRangeFallback ==
  /\ ts.pc = "setup" =>
       \A in \in SetupInputs(env) :
         AcquisitionFallsBack(BeforeSetupReading(ts, in),
                              startSensorReading(BeforeSetupReading(ts, in), in), in)
  /\ ts.pc = "loop" =>
       \A in \in TsInputs(ts, env) :
         AcquisitionFallsBack(BeforeSensors(ts, in),
                              LoopSensors(BeforeSensors(ts, in), in), in)

\* The calls loop() makes in one iteration, in the order in which it makes
\* them; each test is made in the state the earlier steps have left.  The
\* three periodic steps are called on their interval test alone, whatever
\* the state of their task (the callee tests it and may return at once).
CallsError(s) == IF s.currentError # ERROR_NONE THEN <<"handleError">> ELSE <<>>

CallsSensors(s) ==
  IF Since(s, "lastSensorReadTime") >= SENSOR_READ_INTERVAL
  THEN <<"startSensorReading">> ELSE <<>>

CallsUpload(s) ==
  IF Since(s, "lastServerSendTime") >= SERVER_SEND_INTERVAL
  THEN <<"startDataUpload">> ELSE <<>>

CallsDisplay(s) ==
  IF Since(s, "lastLCDUpdateTime") >= LCD_UPDATE_INTERVAL
  THEN <<"updateDisplay">> ELSE <<>>

\* the calls of the switch (currentState)
CallsSwitch(s) ==
  CASE s.currentState = "STATE_READ_SENSORS" /\ s.sensorTaskState = "TASK_FAILED" ->
         <<"displayErrorOnce">>
    [] s.currentState = "STATE_EVALUATE_WATERING" ->
         IF startWatering(s).wateringTaskState = "TASK_RUNNING"
         THEN <<"startWatering", "continueWatering">> ELSE <<"startWatering">>
    [] s.currentState = "STATE_WATERING" -> <<"continueWatering">>
    [] s.currentState = "STATE_SEND_DATA" /\ s.dbTaskState = "TASK_RUNNING" ->
         <<"continueDataUpload">>
    [] /\ s.currentState = "STATE_SEND_DATA" /\ s.dbTaskState = "TASK_FAILED"
       /\ s.dataTransmissionErrors + 1 >= 3
       /\ Since(s, "lastDBRetryTime") >= DB_RETRY_INTERVAL ->
         <<"startDatabaseConnection">>
    [] s.currentState = "STATE_ERROR" -> <<"handleError">>
    [] OTHER -> <<>>

LoopCalls(s, in) ==
  <<"WDT.refresh">>
    \o CallsError(LoopStart(s, in))
    \o CallsSensors(BeforeSensors(s, in))
    \o CallsUpload(BeforeUpload(s, in))
    \o CallsDisplay(LoopUpload(BeforeUpload(s, in), in))
    \o CallsSwitch(BeforeSwitch(s, in))

\* the place of a call in the order watchdog, acquisition, irrigation,
\* uplink, display (the handling of errors has no place in it)
StepRank(f) ==
  CASE f = "WDT.refresh" -> 0
    [] f = "startSensorReading" -> 1
    [] f \in {"startWatering", "continueWatering"} -> 2
    [] f \in {"startDataUpload", "continueDataUpload"} -> 3
    [] f = "updateDisplay" -> 4
    [] OTHER -> -1

InStepOrder(q) ==
  \A i, j \in DOMAIN q :
    (i < j /\ StepRank(q[i]) >= 0 /\ StepRank(q[j]) >= 0) => StepRank(q[i]) <= StepRank(q[j])

\* C15: task-state firmware: the calls of every loop() iteration come in the
\* order watchdog refresh, sensor acquisition, irrigation control, telemetry
\* uplink, display update.
LoopStepOrder ==
  ts.pc = "loop" => \A in \in TsInputs(ts, env) : InStepOrder(LoopCalls(ts, in))

\* the rest of the iteration that has come to m, the state after the
\* acquisition step: loop(s, in) = AfterSensors(BeforeUpload(s, in), in)
AfterSensors(m, in) == LoopEnd(StateMachine(LoopDisplay(LoopUpload(m, in), in), in))

\* the acquisition step takes m to u
SensorDataKeptFrom(u, in) == AfterSensors(u, in).sensorData = u.sensorData

\* the iteration that starts in s has come to m after handleError()
SensorDataKept(s, m, in) ==
  /\ m.sensorData = s.sensorData
  /\ SensorDataKeptFrom(LoopSensors(m, in), in)

\* C16: task-state firmware: in every loop() iteration sensorData is the same
\* after handleError() as at the start, and the same at the end of the
\* iteration as after the acquisition step: startDataUpload(),
\* updateDisplay(), the switch with startWatering() and continueWatering()
\* and the closing delay leave every field as startSensorReading() left it.
SensorDataReadOnly ==
  ts.pc = "loop" =>
    \A in \in TsInputs(ts, env) : SensorDataKept(ts, BeforeSensors(ts, in), in)

\* an iteration without an acquisition has stopped the pump on a soil
\* moisture it has read itself: the stored one still calls for water
SensorDataReadOnlyWitness ==
  /\ Called(ts, "continueWatering")
  /\ Called(ts, "pumpLow")
  /\ ~Called(ts, "startSensorReading")
  /\ ts.sensorData.soilMoisture < SOIL_THRESHOLD
  /\ ts.pump = "LOW"

\* C17: task-state firmware: a loop() iteration that starts a watering
\* evaluation (startWatering() finds the task idle and the stored soil
\* moisture below SOIL_THRESHOLD) takes the outcome of the band of the stored
\* rain value: below HEAVY_RAIN_THRESHOLD it ends the task with the pump LOW
\* and neither calls continueWatering() nor drives the pump HIGH; from
\* HEAVY_RAIN_THRESHOLD on, below LIGHT_RAIN_THRESHOLD (partial cycle) as well
\* as from LIGHT_RAIN_THRESHOLD on (full cycle), continueWatering() drives
\* the pump HIGH in the same iteration.
RainBandOutcome ==
  Called(ts, "startWatering") =>
    /\ ts.sensorData.soilMoisture < SOIL_THRESHOLD
    /\ ts.sensorData.rainValue < HEAVY_RAIN_THRESHOLD =>
         (~Called(ts, "pumpHigh") /\ ~Called(ts, "continueWatering") /\ ts.pump = "LOW"
            /\ ts.wateringTaskState # "TASK_RUNNING")
    /\ ts.sensorData.rainValue >= HEAVY_RAIN_THRESHOLD =>
         (Called(ts, "continueWatering") /\ Called(ts, "pumpHigh"))

\* an evaluation at the lower edge of the partial band has switched the pump on
RainBandOutcomeWitness ==
  /\ Called(ts, "startWatering")
  /\ ts.sensorData.rainValue = HEAVY_RAIN_THRESHOLD
  /\ Called(ts, "pumpHigh")
  /\ ts.pump = "HIGH"

\* the soil moisture target of the cycle that the stored rain value selects
CycleTarget(m) ==
  IF m.sensorData.rainValue < LIGHT_RAIN_THRESHOLD
  THEN PARTIAL_SOIL_THRESHOLD ELSE SOIL_THRESHOLD

\* the switch takes m to r and reads in.currentSoilMoisture from the soil
\* channel: when it
\* has polled the channel with the pump on and the pump time not yet over, it
\* has stopped the pump exactly when the value read has reached the target
StoppedAtTarget(m, r, in) ==
  (/\ Called(r, "continueWatering")
   /\ m.pumpActive \/ Called(r, "pumpHigh")
   /\ m.pumpActive => Since(m, "pumpStartTime") < PUMP_TIME_THRESHOLD)
    => (Called(r, "pumpLow") <=> in.currentSoilMoisture >= CycleTarget(m))

\* C18: task-state firmware: a partial cycle (stored rain below
\* LIGHT_RAIN_THRESHOLD) is stopped when the soil moisture read by
\* continueWatering() reaches PARTIAL_SOIL_THRESHOLD, a full cycle when it
\* reaches SOIL_THRESHOLD.
CycleStopsAtOwnTarget ==
  ts.pc = "loop" =>
    \A in \in TsInputs(ts, env) :
      StoppedAtTarget(BeforeSwitch(ts, in), StateMachine(BeforeSwitch(ts, in), in), in)

\* C19: task-state firmware: no reachable state is one after which the LCD is
\* never updated again: a state in which a display update has completed and
\* in which no answer of the environment and no passing of time makes loop()
\* change a global, so that every later LCD_UPDATE_INTERVAL passes without a
\* call of updateDisplay() taking effect and displayMode keeps its value.
DisplayRefreshed == ~(TsFrozen(ts) /\ ts.displayTaskState = "TASK_COMPLETED")

\* ran holds a warning screen of handleError() and, after it, a display update
WarningThenView(s) ==
  \E i, j \in DOMAIN s.ran :
    i < j /\ s.ran[i] = "warning" /\ s.ran[j] = "updateDisplay"

\* C20: task-state firmware: no loop() iteration writes the warning screen of
\* the error that is active (and still is at the end of the iteration) and
\* then lets updateDisplay() write a data view over it.
ErrorViewHasPriority ==
  ~(/\ ts.currentError # ERROR_NONE
    /\ ts.lastDisplayedError = ts.currentError
    /\ WarningThenView(ts))

\* C21: task-state firmware: sensorData.isValid is set only once every
\* channel has given a reading that is not an error: the acquisition of
\* setup(), the first since boot, sets it only when the DHT probe answers and
\* every analog channel reads in range, and it is not set while loop() runs on
\* an installation whose DHT probe never answers or whose soil probe is not
\* wired.
ValidOnlyAfterAllRead ==
  /\ ts.pc = "setup" =>
       \A in \in SetupInputs(env) :
         startSensorReading(BeforeSetupReading(ts, in), in).sensorData.isValid
           => SensorAllGood(in)
  /\ (ts.pc = "loop" /\ ts.sensorData.isValid)
       => (env.dht < MAX_DHT_RETRIES /\ env.probe # "open")

\* what a DHT probe can do at one acquisition: the number of its attempts
\* that fail before one succeeds
DhtOutcomes == 0..MAX_DHT_RETRIES

\* the number of DHT attempts in the call list of s
DhtAttempts(s) == Cardinality({i \in DOMAIN s.ran : s.ran[i] = "dht.read"})

\* v is what lines 334-335 leave in a field that held u when every attempt
\* has failed: the default in the place of 0.0, else u
DhtKeptInCode(u, v, default) == IF u = 0 THEN v = default ELSE v = u

\* the acquisition that takes m to r when the probe fails in.dht times, as the
\* source makes it: d, the state after its DHT step, holds ERROR_DHT when
\* every attempt has failed, and r ends with an error code, ERROR_DHT when
\* the analog channels read in range
DhtOutcomeInCode(m, d, r, in) ==
  /\ DhtAttempts(r) = Min(in.dht + 1, MAX_DHT_RETRIES)
  /\ r.sensorTaskState = "TASK_COMPLETED"
  /\ ~DhtSuccess(in) =>
       /\ DhtKeptInCode(m.sensorData.temperature, r.sensorData.temperature, 25)
       /\ DhtKeptInCode(m.sensorData.humidity, r.sensorData.humidity, 50)
       /\ d.currentError = ERROR_DHT
       /\ r.currentError # ERROR_NONE
       /\ (InRange(in.ldr) /\ InRange(in.rain) /\ InRange(in.air) /\ InRange(in.soil))
            => r.currentError = ERROR_DHT

\* the state after the DHT step of the acquisition that starts in m
AfterDht(m, in) ==
  SensorDht(SensorTimestamp(Ran(Stamp(m, "lastSensorReadTime"), "startSensorReading"), in),
            in)

\* what the source does in every acquisition that setup() or loop() starts,
\* for each thing the probe can do
DhtExhaustedInCode ==
  /\ ts.pc = "setup" =>
       \A in \in SetupInputs(env) : \A k \in DhtOutcomes :
         AcquisitionDue(BeforeSetupReading(ts, in)) =>
           DhtOutcomeInCode(BeforeSetupReading(ts, in),
                            AfterDht(BeforeSetupReading(ts, in), [in EXCEPT !.dht = k]),
                            startSensorReading(BeforeSetupReading(ts, in),
                                               [in EXCEPT !.dht = k]),
                            [in EXCEPT !.dht = k])
  /\ ts.pc = "loop" =>
       \A in \in TsInputs(ts, env) : \A k \in DhtOutcomes :
         AcquisitionDue(BeforeSensors(ts, in)) =>
           DhtOutcomeInCode(BeforeSensors(ts, in),
                            AfterDht(BeforeSensors(ts, in), [in EXCEPT !.dht = k]),
                            startSensorReading(BeforeSensors(ts, in), [in EXCEPT !.dht = k]),
                            [in EXCEPT !.dht = k])

\* v is what a field that held u in state m holds after an acquisition whose
\* attempts have all failed: the value of the last acquisition, or the
\* default when m is the state before the first acquisition since boot
DhtKept(m, u, v, default) == IF m.sensorData.isValid THEN v = u ELSE v = default

\* the two fields are kept by the acquisition that takes m to r
DhtValuesKeptBy(m, r) ==
  /\ DhtKept(m, m.sensorData.temperature, r.sensorData.temperature, 25)
  /\ DhtKept(m, m.sensorData.humidity, r.sensorData.humidity, 50)

\* the acquisition that takes m to r when the probe fails in.dht times: at
\* most MAX_DHT_RETRIES attempts, the task completed and, when every attempt
\* has failed, the two fields kept and ERROR_DHT in currentError
DhtExhaustedBy(m, r, in) ==
  /\ DhtAttempts(r) = Min(in.dht + 1, MAX_DHT_RETRIES)
  /\ r.sensorTaskState = "TASK_COMPLETED"
  /\ ~DhtSuccess(in) => (DhtValuesKeptBy(m, r) /\ r.currentError = ERROR_DHT)

\* the acquisitions that start in state m, one for each thing the probe can do
DhtExhaustedFrom(m, in) ==
  AcquisitionDue(m) =>
    \A k \in DhtOutcomes :
      DhtExhaustedBy(m, startSensorReading(m, [in EXCEPT !.dht = k]), [in EXCEPT !.dht = k])

\* C22: task-state firmware: every acquisition, in setup() and in loop(),
\* whatever the number of DHT attempts that fail, makes at most
\* MAX_DHT_RETRIES attempts and ends with sensorTaskState = TASK_COMPLETED;
\* when every attempt fails, temperature and humidity keep the values of the
\* last acquisition (25 and 50 when there has been none since boot) and the
\* acquisition ends with currentError = ERROR_DHT.
DhtExhausted ==
  /\ ts.pc = "setup" =>
       \A in \in SetupInputs(env) : DhtExhaustedFrom(BeforeSetupReading(ts, in), in)
  /\ ts.pc = "loop" =>
       \A in \in TsInputs(ts, env) : DhtExhaustedFrom(BeforeSensors(ts, in), in)

\* the part of C22 on the two fields: an acquisition whose attempts all fail
\* keeps the temperature and the humidity of the last acquisition
DhtValuesKept ==
  ts.pc = "loop" =>
    \A in \in TsInputs(ts, env) :
      AcquisitionDue(BeforeSensors(ts, in)) =>
        DhtValuesKeptBy(BeforeSensors(ts, in),
                        startSensorReading(BeforeSensors(ts, in),
                                           [in EXCEPT !.dht = MAX_DHT_RETRIES]))

\* the part of C22 on the error code: an acquisition whose attempts all fail
\* ends with currentError = ERROR_DHT
DhtErrorRecorded ==
  ts.pc = "loop" =>
    \A in \in TsInputs(ts, env) :
      AcquisitionDue(BeforeSensors(ts, in)) =>
        startSensorReading(BeforeSensors(ts, in),
                           [in EXCEPT !.dht = MAX_DHT_RETRIES]).currentError = ERROR_DHT

\* sensorData without its time stamp
Readings(s) == [f \in DOMAIN s.sensorData \ {"timestamp"} |-> s.sensorData[f]]

\* the task is idle again and SENSOR_READ_INTERVAL has passed: the next call
\* of startSensorReading() acquires
Rearmed(s) ==
  [s EXCEPT !.sensorTaskState = "TASK_IDLE",
            !.age["lastSensorReadTime"] = SENSOR_READ_INTERVAL]

\* the acquisition of valid inputs in state m, and the same acquisition again:
\* the second leaves the readings of the first, which are the values read
SameReadings(m, r, in) ==
  (AcquisitionDue(m) /\ SensorAllGood(in)) =>
    /\ Readings(startSensorReading(r, in)) = Readings(r)
    /\ Readings(startSensorReading(Rearmed(r), in)) = Readings(r)
    /\ Called(startSensorReading(Rearmed([r EXCEPT !.ran = <<>>]), in), "startSensorReading")
    /\ r.sensorData.ldrValue = in.ldr

\* C23: task-state firmware: in every state in which setup() or loop()
\* starts an acquisition, whatever sensorData and currentError hold, an
\* acquisition of valid inputs (the DHT probe answers within its attempts,
\* every analog channel reads in range) followed by a second acquisition of
\* the same inputs, called at once or after the task has been reset and the
\* interval has passed, leaves every field of sensorData but timestamp as the
\* first acquisition left it.
AcquisitionIdempotent ==
  /\ ts.pc = "setup" =>
       \A in \in SetupInputs(env) : \A k \in DhtOutcomes :
         SameReadings(BeforeSetupReading(ts, in),
                      startSensorReading(BeforeSetupReading(ts, in), [in EXCEPT !.dht = k]),
                      [in EXCEPT !.dht = k])
  /\ ts.pc = "loop" =>
       \A in \in TsInputs(ts, env) : \A k \in DhtOutcomes :
         SameReadings(BeforeSensors(ts, in),
                      startSensorReading(BeforeSensors(ts, in), [in EXCEPT !.dht = k]),
                      [in EXCEPT !.dht = k])

\* an acquisition of valid inputs has followed one that had left an error and
\* a fallback value
AcquisitionIdempotentWitness ==
  /\ ts.pc = "loop"
  /\ Called(ts, "startSensorReading")
  /\ ts.currentError = ERROR_NONE
  /\ ts.lastDisplayedError \in {ERROR_RAIN, ERROR_SOIL}
  /\ InRange(ts.sensorData.rainValue)

\* the upload step takes m, in which an upload is due and checkWiFi() fails,
\* to r
UploadRefused(m, r) ==
  (m.dbTaskState = "TASK_IDLE"
     /\ Since(m, "lastServerSendTime") >= SERVER_SEND_INTERVAL
     /\ ~checkWiFi(m).ok)
    => /\ Called(r, "startDataUpload")
       /\ r.dbTaskState = "TASK_FAILED"
       /\ r.currentError = ERROR_WIFI
       /\ ~Called(r, "http.post")
       /\ Since(r, "lastServerSendTime") >= SERVER_SEND_INTERVAL
       /\ r.dataTransmissionErrors = m.dataTransmissionErrors

\* the upload step of the iteration that has come to m
UploadRefusedAt(m, in) == UploadRefused(m, LoopUpload(m, in))

\* C24: task-state firmware: the upload step of a loop() iteration that
\* finds an upload due (the task idle, SERVER_SEND_INTERVAL passed) and the
\* access point out of reach (checkWiFi() returns false) ends with
\* dbTaskState = TASK_FAILED and currentError = ERROR_WIFI, sends no HTTP
\* request, does not write lastServerSendTime and leaves
\* dataTransmissionErrors as it was.
NoUploadWithoutWifi ==
  ts.pc = "loop" => \A in \in TsInputs(ts, env) : UploadRefusedAt(BeforeUpload(ts, in), in)

\* an iteration has refused the upload for want of a connection
NoUploadWithoutWifiWitness ==
  /\ Called(ts, "startDataUpload")
  /\ Called(ts, "WiFi.begin")
  /\ ~Called(ts, "http.post")
  /\ ts.dbTaskState = "TASK_FAILED"
  /\ ts.currentError = ERROR_WIFI
  /\ ts.dataTransmissionErrors = 0

\* status codes of the ingestion service, and 0 for no response
ResponseCodes == {200, 201, 204, 299, 199, 300, 404, 500, 0}

Is2xx(status) == status \in 200..299

\* the upload step of the task-state firmware has sent a request in r and
\* got the status: the task is completed for a 2xx status and failed with
\* ERROR_SERVER for any other
TsUplinkOutcome(r, status) ==
  Called(r, "http.post") =>
    IF Is2xx(status)
    THEN r.dbTaskState = "TASK_COMPLETED" /\ r.currentError # ERROR_SERVER
    ELSE r.dbTaskState = "TASK_FAILED" /\ r.currentError = ERROR_SERVER

\* the same for an iteration of the round-robin firmware, which has no task
\* state
RrUplinkOutcome(r, status) ==
  Called(r, "http.post") => (Is2xx(status) <=> r.currentError # ERROR_SERVER)

\* C25: in both firmwares a request that the service answers with a 2xx
\* status is a successful uplink (task-state: dbTaskState = TASK_COMPLETED;
\* both: currentError is not ERROR_SERVER) and a request answered with any
\* other status, or not answered, is a failed one (ERROR_SERVER).
Any2xxAccepted ==
  /\ (firmware = "task" /\ ts.pc = "loop") =>
       \A in \in TsInputs(ts, env) : \A status \in ResponseCodes :
         TsUplinkOutcome(LoopUpload(BeforeUpload(ts, in), [in EXCEPT !.http = status]),
                         status)
  /\ (firmware = "round" /\ rr.pc = "loop") =>
       \A in \in RrInputs(rr, env) : \A status \in ResponseCodes :
         RrUplinkOutcome(loopRr(rr, [in EXCEPT !.http = status]), status)

\* the same for one firmware at a time
Any2xxAcceptedTs == firmware = "task" => Any2xxAccepted
Any2xxAcceptedRr == firmware = "round" => Any2xxAccepted

\* C26: task-state firmware: neither in setup(), from WDT.begin() on, nor in
\* a loop() iteration, whatever the sensors and the network answer, does the
\* time since the last WDT.refresh() reach WATCHDOG_TIMEOUT before the
\* refresh that opens the next iteration, the blocking waits counted (the
\* DHT retry delays, the delays of the screens and watering messages, the
\* wait for the HTTP response, the closing delay).
WatchdogFed ==
  /\ ts.pc = "setup" => \A in \in SetupInputs(env) : ~WdtExpired(setup(Watched(ts), in))
  /\ ts.pc = "loop" => \A in \in TsInputs(ts, env) : ~WdtExpired(loop(Watched(ts), in))

\* the call has returned
Returned == firmware = "status" /\ env.status # "none"

\* C27: getSensorStatus() with invertLogic = false returns LOW for a value
\* below the low threshold, MEDIUM for a value from the low threshold on and
\* below the medium threshold, and HIGH for any other value, for every raw
\* value 0..1023 and the thresholds of the soil and air quality displays.
StatusTiers ==
  (Returned /\ ~env.use.invertLogic) =>
    /\ env.value < env.use.lowThreshold => env.status = "LOW"
    /\ (env.use.lowThreshold <= env.value /\ env.value < env.use.mediumThreshold)
         => env.status = "MEDIUM"
    /\ env.value >= env.use.mediumThreshold => env.status = "HIGH"

\* soil moisture 150 against SOIL_LOW and SOIL_MEDIUM has been classified LOW
StatusTiersWitness ==
  /\ Returned
  /\ env.use.sensor = "soil" /\ ~env.use.invertLogic
  /\ env.use.lowThreshold = 200 /\ env.use.mediumThreshold = 400
  /\ env.value = 150
  /\ env.status = "LOW"

\* v lies strictly between the two thresholds, whichever is the greater
Between(v, a, b) == (a < v /\ v < b) \/ (b < v /\ v < a)

\* C30: getSensorStatus() with invertLogic = true and the thresholds of the
\* light and rain displays returns MEDIUM for every raw value that lies
\* strictly between the two thresholds.
InvertedMediumTier ==
  (Returned /\ env.use.invertLogic
     /\ Between(env.value, env.use.lowThreshold, env.use.mediumThreshold))
    => env.status = "MEDIUM"

\* the same for the calls of the task-state firmware alone
InvertedMediumTierTs ==
  (env.use.lowThreshold = TS_LIGHT_LOW \/ env.use.mediumThreshold = TS_RAIN_MEDIUM)
    => InvertedMediumTier

\* no call with invertLogic = true returns MEDIUM
InvertedNeverMedium == (Returned /\ env.use.invertLogic) => env.status # "MEDIUM"

\* The states of the task-state firmware that follow s on installation e: the
\* steps of TsSetup, TsLoop, TsSleep and TsDay written as a set.
TsAfter(s, r) ==
  IF TsQuiet(s, r) THEN {[Delay(s, d) EXCEPT !.ran = r.ran] : d \in TsNaps(s, r)} ELSE {r}

TsDayDue(s) ==
  /\ ~s.ntpDue /\ ~s.timeInitialized
  /\ \A x \in {"lastLCDUpdateTime", "lastLCDModeChangeTime", "lastServerSendTime",
               "lastDBRetryTime", "dbTaskStartTime"} : s.age[x] = TsCap(x)

TsSuccessors(s, e) ==
  IF s.pc = "setup" THEN {setup(s, in) : in \in SetupInputs(e)}
  ELSE UNION {TsAfter(s, loop(s, in)) : in \in TsInputs(s, e)}
         \cup (IF TsDayDue(s) THEN {[s EXCEPT !.ntpDue = TRUE]} ELSE {})

\* the states reachable from those of seen, of which those of frontier have
\* not been expanded yet
RECURSIVE TsReachFrom(_, _, _)
TsReachNext(seen, next, e) == TsReachFrom(seen \cup next, next, e)

TsReachFrom(seen, frontier, e) ==
  IF frontier = {} THEN seen
  ELSE TsReachNext(seen, UNION {TsSuccessors(s, e) : s \in frontier} \ seen, e)

\* the states the firmware reaches from power-up on installation e
TsReachable(e) == TsReachFrom({Settle(TsBoot)}, {Settle(TsBoot)}, e)

\* the values currentState takes in the executions on installation e
TsStatesEntered(e) == {s.currentState : s \in TsReachable(e)}

\* C28: task-state firmware: at power-up, for each SystemState that the
\* switch of loop() handles there is an execution from this boot in which
\* currentState takes it: STATE_SEND_DATA and STATE_WATERING in particular.
EverySystemStateEntered ==
  (firmware = "task" /\ ts.pc = "setup") => SystemState \subseteq TsStatesEntered(env)

\* no execution takes currentState to STATE_WATERING, STATE_SEND_DATA or
\* STATE_ERROR
SystemStatesNeverEntered ==
  ts.currentState \notin {"STATE_WATERING", "STATE_SEND_DATA", "STATE_ERROR"}

\* a watering cycle is running in case STATE_EVALUATE_WATERING
WateringRunning(s) ==
  s.wateringTaskState = "TASK_RUNNING" /\ s.currentState = "STATE_EVALUATE_WATERING"

\* C29: task-state firmware: a loop() iteration that begins and ends with a
\* watering cycle running, SENSOR_READ_INTERVAL having passed since the last
\* acquisition, finds the sensor task idle and acquires.
AcquisitionDuringWatering ==
  [][(IterationStep
        /\ WateringRunning(ts) /\ WateringRunning(ts')
        /\ Since(ts, "lastSensorReadTime") >= SENSOR_READ_INTERVAL)
       => (ts.sensorTaskState = "TASK_IDLE" /\ Called(ts', "startSensorReading"))]_vars

\* while a watering cycle runs and no error is active, the sensor task, once
\* completed, is not idle again
SensorTaskStuckWhileWatering ==
  [][(IterationStep
        /\ WateringRunning(ts) /\ WateringRunning(ts')
        /\ ts.sensorTaskState = "TASK_COMPLETED" /\ ts.currentError = ERROR_NONE)
       => (ts'.sensorTaskState = "TASK_COMPLETED" /\ ~Called(ts', "startSensorReading"))]_vars

\* a step of the round-robin firmware that is one or more loop() iterations
RrIterationStep == firmware = "round" /\ rr.pc = "loop"

\* the call that the case of state st makes in the iteration that enters st
RrEntryCall(st) ==
  CASE st = "STATE_READ_SENSORS" -> "readSensors"
    [] st = "STATE_SEND_DATA" -> "sendData"
    [] st = "STATE_WATERING" -> "controlWatering"
    [] st = "STATE_DISPLAY_DATA" -> "WDT.refresh"

\* the cycle of the states: each pair is a state and the one that follows it
StateCycle ==
  {<<"STATE_READ_SENSORS", "STATE_DISPLAY_DATA">>, <<"STATE_DISPLAY_DATA", "STATE_SEND_DATA">>,
   <<"STATE_SEND_DATA", "STATE_WATERING">>, <<"STATE_WATERING", "STATE_READ_SENSORS">>}

\* C31: round-robin firmware: setup() leaves currentState =
\* STATE_READ_SENSORS; a loop() iteration changes currentState only when
\* STATE_DURATION has passed since the last change, and then to the next
\* state of the cycle READ_SENSORS -> DISPLAY_DATA -> SEND_DATA -> WATERING
\* -> READ_SENSORS, whose case runs in that same iteration; an iteration
\* begun before STATE_DURATION has passed leaves currentState as it is.
RotationInOrder ==
  [][/\ (firmware = "round" /\ rr.pc = "setup")
          => rr'.currentState = "STATE_READ_SENSORS"
     /\ (RrIterationStep /\ rr'.currentState # rr.currentState)
          => /\ Since(rr, "lastStateChangeTime") >= STATE_DURATION
             /\ <<rr.currentState, rr'.currentState>> \in StateCycle
             /\ Called(rr', RrEntryCall(rr'.currentState))
     /\ (RrIterationStep /\ Since(rr, "lastStateChangeTime") < STATE_DURATION)
          => rr'.currentState = rr.currentState]_vars

\* an iteration has come back to STATE_READ_SENSORS after a whole rotation,
\* in which the uplink failed, and reads the sensors
RotationInOrderWitness ==
  /\ firmware = "round" /\ rr.pc = "loop"
  /\ rr.currentState = "STATE_READ_SENSORS"
  /\ rr.displayMode = 1
  /\ Called(rr, "readSensors")

\* the number of calls of f in the iteration that led to s
Calls(s, f) == Cardinality({i \in DOMAIN s.ran : s.ran[i] = f})

\* the step enters state st by the rotation; the step stays in st
RrEnters(st) == RrIterationStep /\ rr.currentState # st /\ rr'.currentState = st
RrStaysIn(st) == RrIterationStep /\ rr.currentState = st /\ rr'.currentState = st

\* C32: round-robin firmware: between iterations sensorsReadThisCycle is
\* false outside STATE_READ_SENSORS and dataSentThisCycle is false outside
\* STATE_SEND_DATA, so both are false on entry; the iteration that enters
\* STATE_READ_SENSORS reads the sensors once and the later iterations of the
\* visit do not read; the iteration that enters STATE_SEND_DATA makes one
\* upload attempt with at most one HTTP POST, and the later iterations of the
\* visit make none.
OncePerVisit ==
  [][/\ (RrIterationStep /\ rr.currentState # "STATE_READ_SENSORS")
          => ~rr.sensorsReadThisCycle
     /\ (RrIterationStep /\ rr.currentState # "STATE_SEND_DATA")
          => ~rr.dataSentThisCycle
     /\ RrEnters("STATE_READ_SENSORS")
          => Calls(rr', "readSensors") = 1 /\ rr'.sensorsReadThisCycle
     /\ (RrStaysIn("STATE_READ_SENSORS") /\ rr.sensorsReadThisCycle)
          => Calls(rr', "readSensors") = 0 /\ rr'.sensorData = rr.sensorData
     /\ RrEnters("STATE_SEND_DATA")
          => /\ Calls(rr', "sendData") = 1 /\ Calls(rr', "http.post") <= 1
             /\ rr'.dataSentThisCycle
     /\ (RrStaysIn("STATE_SEND_DATA") /\ rr.dataSentThisCycle)
          => Calls(rr', "sendData") = 0 /\ Calls(rr', "http.post") = 0]_vars

\* a later iteration of a visit of STATE_SEND_DATA in which a request was made
OncePerVisitWitness ==
  /\ firmware = "round" /\ rr.pc = "loop"
  /\ rr.currentState = "STATE_SEND_DATA" /\ rr.dataSentThisCycle
  /\ rr.displayMode = 2
  /\ ~Called(rr, "sendData")

\* the stored readings on which the validation is exercised: every
\* combination of a good and a bad value per field, and the other bad values
\* of the DHT fields one at a time
ValidationGood ==
  [temperature |-> 24, humidity |-> 65, ldrValue |-> 550, rainValue |-> 950,
   airQuality |-> 300, soilMoisture |-> 150, timestamp |-> "epoch"]

ValidationData ==
  [temperature : {0, 24}, humidity : {65, 101},
   ldrValue : {0, 550}, rainValue : {950, ADC_MAX + 1},
   airQuality : {0, 300}, soilMoisture : {150, ADC_MAX + 1},
   timestamp : {"epoch"}]
  \cup {[ValidationGood EXCEPT !.temperature = v] : v \in {-41, -40, 80, 81}}
  \cup {[ValidationGood EXCEPT !.humidity = v] : v \in {-1, 0, 100}}
  \cup {[ValidationGood EXCEPT !.soilMoisture = v] : v \in {0, 1, ADC_MAX}}

\* the ranges the validation admits, field by field
AnalogOk(v) == v \in 1..ADC_MAX
TemperatureOk(d) == d.temperature # 0 /\ d.temperature >= -40 /\ d.temperature <= 80
HumidityOk(d) == d.humidity # 0 /\ d.humidity >= 0 /\ d.humidity <= 100

DataValid(d) ==
  /\ TemperatureOk(d) /\ HumidityOk(d)
  /\ AnalogOk(d.ldrValue) /\ AnalogOk(d.rainValue)
  /\ AnalogOk(d.airQuality) /\ AnalogOk(d.soilMoisture)

\* the error code of the first field of d that is not valid
FirstInvalid(d) ==
  CASE ~TemperatureOk(d) -> ERROR_DHT
    [] TemperatureOk(d) /\ ~HumidityOk(d) -> ERROR_DHT
    [] TemperatureOk(d) /\ HumidityOk(d) /\ ~AnalogOk(d.ldrValue) -> ERROR_LDR
    [] TemperatureOk(d) /\ HumidityOk(d) /\ AnalogOk(d.ldrValue)
         /\ ~AnalogOk(d.rainValue) -> ERROR_RAIN
    [] TemperatureOk(d) /\ HumidityOk(d) /\ AnalogOk(d.ldrValue)
         /\ AnalogOk(d.rainValue) /\ ~AnalogOk(d.airQuality) -> ERROR_AIR
    [] OTHER -> ERROR_SOIL

\* the iteration that begins in s enters STATE_SEND_DATA
RrSendDue(s) ==
  /\ s.pc = "loop" /\ s.currentState = "STATE_DISPLAY_DATA"
  /\ Since(s, "lastStateChangeTime") >= STATE_DURATION

\* r is the state after the iteration that entered STATE_SEND_DATA with the
\* stored readings d and the answers in
SendChecked(d, r, in) ==
  /\ Called(r, "http.post") => DataValid(d)
  /\ (in.wifi = "up" /\ ~DataValid(d))
       => /\ ~Called(r, "http.post")
          /\ r.currentError = FirstInvalid(d)
          /\ r.dataSentThisCycle
          /\ r.sensorData = d

\* C33: round-robin firmware: the loop() iteration that enters
\* STATE_SEND_DATA issues an HTTP POST only if the stored readings are valid
\* (temperature non-zero and within [-40,80], humidity non-zero and within
\* [0,100], every analog field within 1..1023); when they are not, it makes
\* no request, marks the send as done for the cycle and leaves currentError
\* at the error code of the first field that is not valid.
SendOnlyValidated ==
  (firmware = "round" /\ RrSendDue(rr))
    => \A d \in ValidationData \cup {rr.sensorData} :
         \A in \in RrInputs(rr, env) :
           SendChecked(d, loopRr([rr EXCEPT !.sensorData = d], in), in)

\* the send was skipped for the open soil probe, all other fields being valid
SendOnlyValidatedWitness ==
  /\ firmware = "round" /\ rr.pc = "loop"
  /\ rr.currentState = "STATE_SEND_DATA"
  /\ Called(rr, "sendData") /\ ~Called(rr, "http.post")
  /\ rr.sensorData.soilMoisture > ADC_MAX /\ rr.sensorData.temperature # 0
  /\ rr.currentError = ERROR_SOIL /\ rr.dataSentThisCycle

\* the stored rain level is the one of the partial-watering branch
RainPartial(s) ==
  s.sensorData.rainValue >= RAIN_MEDIUM /\ s.sensorData.rainValue < RAIN_LOW

\* the iteration of this step switched the pump on
RrPumpStarted == RrIterationStep /\ ~rr.isPumpActive /\ rr'.isPumpActive

\* C34: round-robin firmware: the loop() iteration in which controlWatering()
\* starts the pump writes "PUMP ON (Partial)" to the watering status view
\* when the stored rain level is that of the partial-watering branch
\* (RAIN_MEDIUM <= rainValue < RAIN_LOW), and "PUMP ON" without the suffix
\* when it is that of the full-watering branch.
PartialShownAsPartial ==
  [][RrPumpStarted
       => IF RainPartial(rr')
          THEN Called(rr', "PUMP ON (Partial)") /\ ~Called(rr', "PUMP ON")
          ELSE Called(rr', "PUMP ON") /\ ~Called(rr', "PUMP ON (Partial)")]_vars

\* no loop() iteration writes "PUMP ON (Partial)"; the iteration that starts
\* the pump in either branch writes "PUMP ON"
PartialNeverShown ==
  [][RrIterationStep
       => /\ ~Called(rr', "PUMP ON (Partial)")
          /\ (~rr.isPumpActive /\ rr'.isPumpActive) => Called(rr', "PUMP ON")]_vars

\* an error code arises in the loop() iteration of this step
TsErrorArises ==
  /\ firmware = "task" /\ IterationStep
  /\ ts.currentError = ERROR_NONE /\ ts'.currentError # ERROR_NONE

RrErrorArises ==
  /\ RrIterationStep
  /\ rr.currentError = ERROR_NONE /\ rr'.currentError # ERROR_NONE

\* C35 (task-state firmware): when a loop() iteration changes currentError
\* from ERROR_NONE to an error code, handleError() writes the warning screen
\* in the next iteration.
WarningOnEveryOnsetTs ==
  [][TsErrorArises
       => \A in \in TsInputs(ts', env) : Calls(loop(ts', in), "warning") = 1]_vars

\* C35 (round-robin firmware): when a loop() iteration changes currentError
\* from ERROR_NONE to an error code, displayErrorOnce() writes the warning
\* screen at the end of that iteration.
WarningOnEveryOnsetRr ==
  [][RrErrorArises => Calls(rr', "displayErrorOnce") = 1]_vars

\* C35: in both firmwares, each time a loop() iteration changes currentError
\* from ERROR_NONE to an error code, the warning screen of that error is
\* written once (by displayErrorOnce() at the end of the iteration in the
\* round-robin firmware, by handleError() in the next iteration in the
\* task-state firmware), whatever error was displayed last.
WarningOnEveryOnset ==
  [][/\ TsErrorArises
          => \A in \in TsInputs(ts', env) : Calls(loop(ts', in), "warning") = 1
     /\ RrErrorArises => Calls(rr', "displayErrorOnce") = 1]_vars

\* an error code that arises is shown unless it is the one displayed last
WarningUnlessLastDisplayed ==
  [][/\ (TsErrorArises /\ ts'.currentError # ts.lastDisplayedError)
          => \A in \in TsInputs(ts', env) : Calls(loop(ts', in), "warning") = 1
     /\ (TsErrorArises /\ ts'.currentError = ts.lastDisplayedError)
          => \A in \in TsInputs(ts', env) : Calls(loop(ts', in), "warning") = 0
     /\ (RrErrorArises /\ rr'.currentError # rr.lastDisplayedError)
          => Calls(rr', "displayErrorOnce") = 1
     /\ (RrErrorArises /\ rr'.currentError = rr.lastDisplayedError)
          => Calls(rr', "displayErrorOnce") = 0]_vars

\* the body lacks a required sensor field or carries a value that is not a
\* number for one
BodyDefective(body) == \E f \in SensorFields : body[f] # "number"

\* r is the service after handler p has received a body in e: the request is
\* answered with status 400 and the handler is finished without an INSERT;
\* table, cache, the other handlers and the start-up code are as before
Refused(e, r, p) ==
  /\ r.posts[p].pc = "done" /\ r.posts[p].status = 400 /\ r.posts[p].row = 0
  /\ r.table = e.table
  /\ r.cache = e.cache
  /\ r.gets = e.gets
  /\ r.boot = e.boot
  /\ r.queue = e.queue
  /\ \A q \in PostHandlers \ {p} : r.posts[q] = e.posts[q]

\* C36: ingestion service, both variants: in every state in which a POST
\* handler is about to receive a request, the start-up code being at any of
\* its statements or finished, a body that lacks one of the six
\* sensor fields or carries a non-numeric value for one is answered with
\* status 400 by that step, with sensor_data and the cache unchanged; a
\* handler that answered 400 has inserted no row and takes no further step.
InvalidBodyRefused ==
  firmware = "backend" =>
    \A p \in PostHandlers :
      /\ env.posts[p].pc = "idle"
           => \A body \in {b \in Bodies : BodyDefective(b)} :
                Refused(env, PostReceive(env, p, body), p)
      /\ env.posts[p].status = 400
           => env.posts[p].pc = "done" /\ env.posts[p].row = 0

\* a request was answered with status 400 by the cached variant while the
\* database has yet to execute the sample INSERT of the start-up code, the
\* table holds a row inserted by the other POST handler and the cache an
\* entry selected after it
InvalidBodyRefusedWitness ==
  /\ firmware = "backend" /\ env.variant = "cached"
  /\ env.boot.pc = "seed" /\ env.boot.at = "sent"
  /\ \E p \in PostHandlers : env.posts[p].status = 400
  /\ \E p \in PostHandlers : env.posts[p].status = 200 /\ env.posts[p].row = 1
  /\ env.table = 1 /\ env.cache.has /\ env.cache.data = 1

\* handler g has answered with a result
GetServed(e, g) == e.gets[g].pc = "done" /\ e.gets[g].status = 200

\* C37: cached ingestion service: every GET /api/sensors/latest that has
\* answered returns a result selected from a table that held every row whose
\* POST had been answered with status 200 when the GET handler started, for
\* every interleaving of the handlers and of the database.
FreshAfterPost ==
  (firmware = "backend" /\ env.variant = "cached") =>
    \A g \in GetHandlers :
      GetServed(env, g) => env.gets[g].result >= env.gets[g].after

\* the same for the variant without the cache
FreshAfterPostPlain ==
  (firmware = "backend" /\ env.variant = "plain") =>
    \A g \in GetHandlers :
      GetServed(env, g) => env.gets[g].result >= env.gets[g].after

\* the dashboard's name of a tier of the LCD
TierName(status) ==
  CASE status = "LOW" -> "low"
    [] status = "MEDIUM" -> "medium"
    [] status = "HIGH" -> "high"

\* both classifications of the reading have been made
BothClassified == firmware = "tiers" /\ env.lcd # "none" /\ env.dashboard # "none"

\* C38: for every raw soil moisture value 0..1023, getSensorStatus() with
\* thresholds 200 and 400 and non-inverted logic and the ingestion service's
\* getStatus() with thresholds 200 and 400 assign the same tier.
SameTier == BothClassified => TierName(env.lcd) = env.dashboard

\* the two classifications agree on every value but 400
SameTierBut400 ==
  BothClassified => (TierName(env.lcd) = env.dashboard <=> env.value # BACKEND_SOIL_HIGH)

=============================================================================
